---- MODULE Spec2Model ----
(***************************************************************************)
(* Model of the analytics core of data_preprocessing: the preprocessing    *)
(* stages of analytics/common/preprocess.py, the PCA engine of             *)
(* analytics/pca.py, the diagnostics of analytics/linearity.py and the     *)
(* orchestrator analyze_metrics of analytics/pipeline.py.                  *)
(*                                                                         *)
(* Numbers.  A numeric cell holds a fixed-point integer: the value times   *)
(* Unit.  Unit is a multiple of 100 (winsorize limits are hundredths) and  *)
(* of 2 and 3 (linear interpolation over gaps of one or two cells), so     *)
(* every quantile and interpolation the model computes is exact.  Prices   *)
(* are powers of two, and a log return is held in units of ln(2)/Unit,     *)
(* so np.log(close).diff() is exact as well.  Infinite cells (log of a     *)
(* zero price) are outside the model's inputs.                             *)
(***************************************************************************)
EXTENDS Integers, Sequences, FiniteSets, TLC

VARIABLES pc, config, input0, caller, df, aliased, trace, art, call, ret

vars == <<pc, config, input0, caller, df, aliased, trace, art, call, ret>>

(***************************************************************************)
(* Bounds of the model.                                                    *)
(***************************************************************************)
MaxRows == 3

\* rows of the end-to-end scenario, components of a ratio sequence, calls
\* of one function on one input
E2ERows == 10

MaxComp == 3

MaxCalls == 2

Unit == 100 * 2 * 3

(***************************************************************************)
(* Cells.  k is the kind of the cell, v its value (0 when it has none).    *)
(*   num  a number (fixed point)        nan  float NaN / None              *)
(*   txt  text that parses (as the      bad  text that does not parse      *)
(*        number or the instant v)                                         *)
(*   dt   a UTC instant, milliseconds   nat  NaT                           *)
(***************************************************************************)
Num(v) == [k |-> "num", v |-> v]
NaN == [k |-> "nan", v |-> 0]
Txt(v) == [k |-> "txt", v |-> v]
Bad == [k |-> "bad", v |-> 0]
Dt(v) == [k |-> "dt", v |-> v]
NaT == [k |-> "nat", v |-> 0]

IsNA(c) == c.k \in {"nan", "nat"}

(***************************************************************************)
(* Tables.  cols is the column order, dtype the dtype of each column       *)
(* ("object", "number", "datetime"), rows the rows in order; a row keeps   *)
(* its index label id (its position in the table it was created in) and    *)
(* its cells c.                                                            *)
(***************************************************************************)
Range(s) == {s[i] : i \in 1..Len(s)}

HasCol(t, col) == col \in Range(t.cols)

NRows(t) == Len(t.rows)

Column(t, col) == [i \in 1..NRows(t) |-> t.rows[i].c[col]]

\* df[col] = values: the column is replaced in place, or appended when new.
SetColumn(t, col, dt, values) ==
    [cols |-> IF HasCol(t, col) THEN t.cols ELSE Append(t.cols, col),
     dtype |-> [x \in Range(t.cols) \cup {col} |->
                   IF x = col THEN dt ELSE t.dtype[x]],
     rows |-> [i \in 1..NRows(t) |->
                 [id |-> t.rows[i].id,
                  c |-> [x \in Range(t.cols) \cup {col} |->
                           IF x = col THEN values[i] ELSE t.rows[i].c[x]]]]]

EmptyTable == [cols |-> <<>>, dtype |-> <<>>, rows |-> <<>>]

(***************************************************************************)
(* preprocess.py: ensure_timestamp_datetime.  A numeric column is read as  *)
(* Unix epoch seconds, any other column is parsed; what does not parse is  *)
(* NaT.  A text cell of the timestamp column names an hour: Txt(h) is the  *)
(* ISO string of h hours after the epoch.  The column of the table object  *)
(* passed in is replaced in place.                                         *)
(***************************************************************************)
\* (mutant) a value that is a datetime already is parsed as text
ToDatetimeNotOfDatetime(c, numeric) ==
    IF numeric
    THEN IF c.k = "num" THEN Dt(c.v * 1000) ELSE NaT
    ELSE IF c.k = "txt" THEN Dt(c.v * 3600 * 1000) ELSE NaT

ToDatetime(c, numeric) ==
    IF numeric
    THEN IF c.k = "num" THEN Dt(c.v * 1000) ELSE NaT
    ELSE CASE c.k = "txt" -> Dt(c.v * 3600 * 1000)
           [] c.k = "dt" -> c
           [] OTHER -> NaT

ensure_timestamp_datetime(t) ==
    IF ~HasCol(t, "timestamp")
    THEN t
    ELSE SetColumn(t, "timestamp", "datetime",
                   [i \in 1..NRows(t) |->
                      ToDatetime(t.rows[i].c["timestamp"],
                                 t.dtype["timestamp"] = "number")])

(***************************************************************************)
(* preprocess.py: sort_dedup.  sort_values uses the default kind           *)
(* "quicksort", which is not a stable sort: rows with equal keys come out  *)
(* in an order the numpy build decides, so every order of the ties is an   *)
(* outcome.  Missing keys are taken out before the sort and appended after *)
(* it in their original order (na_position = "last").  A sort outcome is a *)
(* permutation p: row p[a] of the input is row a of the output.            *)
(***************************************************************************)
\* row i may come first among the rows S: it has a least key, or every key
\* of S is missing and i is the first of them
MayComeFirst(t, col, i, S) ==
    LET x == t.rows[i].c[col]
    IN  IF IsNA(x)
        THEN \A j \in S : IsNA(t.rows[j].c[col]) /\ i <= j
        ELSE \A j \in S : IsNA(t.rows[j].c[col]) \/ x.v <= t.rows[j].c[col].v

RECURSIVE OrdersOf(_, _, _)
OrdersOf(t, col, S) ==
    IF S = {}
    THEN {<<>>}
    ELSE UNION {{<<i>> \o rest : rest \in OrdersOf(t, col, S \ {i})} :
                   i \in {j \in S : MayComeFirst(t, col, j, S)}}

SortOrders(t, col) == OrdersOf(t, col, 1..NRows(t))

Permute(t, p) ==
    [t EXCEPT !.rows = [a \in 1..NRows(t) |-> t.rows[p[a]]]]

RECURSIVE KeepRows(_, _, _)
\* the rows i..Len(rows) of rows that keep(i) keeps
KeepRows(rows, keep, i) ==
    IF i > Len(rows)
    THEN <<>>
    ELSE (IF keep[i] THEN <<rows[i]>> ELSE <<>>) \o KeepRows(rows, keep, i + 1)

\* a drop_duplicates that takes two missing keys for different keys
DropDuplicatesMissingDistinct(t, col) ==
    LET keep == [i \in 1..NRows(t) |->
                    \/ IsNA(t.rows[i].c[col])
                    \/ \A j \in (i + 1)..NRows(t) :
                          t.rows[j].c[col] # t.rows[i].c[col]]
    IN  [t EXCEPT !.rows = KeepRows(t.rows, keep, 1)]

\* drop_duplicates(subset=[col], keep="last"): a row goes when a later row
\* has the same key; two missing keys are the same key.
drop_duplicates(t, col) ==
    LET keep == [i \in 1..NRows(t) |->
                    \A j \in (i + 1)..NRows(t) :
                        t.rows[j].c[col] # t.rows[i].c[col]]
    IN  [t EXCEPT !.rows = KeepRows(t.rows, keep, 1)]

sort_dedup(t, p) ==
    IF HasCol(t, "timestamp")
    THEN drop_duplicates(Permute(t, p), "timestamp")
    ELSE t

SortChoices(t) ==
    IF HasCol(t, "timestamp") THEN SortOrders(t, "timestamp") ELSE {<<>>}

(***************************************************************************)
(* preprocess.py: cast_numeric.  Every column outside the identifier set   *)
(* goes through to_numeric(errors="coerce"), in place.                     *)
(***************************************************************************)
ExcludeCols == {"ticker", "caller", "timestamp"}

\* (mutant) errors="ignore": what does not parse is left as it is
ToNumericIgnoresErrors(c) ==
    CASE c.k = "num" -> c
      [] c.k = "txt" -> Num(c.v)
      [] OTHER -> c

ToNumeric(c) ==
    CASE c.k = "num" -> c
      [] c.k = "txt" -> Num(c.v)
      [] OTHER -> NaN

RECURSIVE CastFrom(_, _)
CastFrom(t, j) ==
    IF j > Len(t.cols)
    THEN t
    ELSE LET col == t.cols[j]
         IN  IF col \in ExcludeCols
             THEN CastFrom(t, j + 1)
             ELSE CastFrom(SetColumn(t, col, "number",
                                     [i \in 1..NRows(t) |->
                                        ToNumeric(t.rows[i].c[col])]),
                           j + 1)

cast_numeric(t) == CastFrom(t, 1)

(***************************************************************************)
(* preprocess.py: add_return_features.  np.log(col).diff(): the first row  *)
(* has no return, and a return is missing when either price is.  The       *)
(* prices of the model are Unit * 2^e, whose logarithm is e * ln 2.        *)
(***************************************************************************)
RECURSIVE Log2(_)
Log2(n) == IF n <= 1 THEN 0 ELSE 1 + Log2(n \div 2)

LogCell(c) ==
    IF c.k = "num" /\ c.v > 0 THEN Num(Unit * Log2(c.v \div Unit)) ELSE NaN

DiffColumn(col) ==
    [i \in 1..Len(col) |->
        IF i > 1 /\ col[i].k = "num" /\ col[i - 1].k = "num"
        THEN Num(col[i].v - col[i - 1].v)
        ELSE NaN]

AddReturn(t, src, dst) ==
    IF HasCol(t, src)
    THEN SetColumn(t, dst, "number",
                   DiffColumn([i \in 1..NRows(t) |-> LogCell(t.rows[i].c[src])]))
    ELSE t

add_return_features(t) ==
    AddReturn(AddReturn(t, "close", "eth_return"), "btc_close", "btc_return")

(***************************************************************************)
(* preprocess.py: winsorize.  limits is in hundredths (1 is 0.01).  The    *)
(* quantile is pandas' default, linear interpolation between the order     *)
(* statistics of the non-missing values; clip ignores a missing bound and  *)
(* leaves a missing cell missing.                                          *)
(***************************************************************************)
RECURSIVE InsertSorted(_, _)
InsertSorted(s, x) ==
    IF s = <<>> \/ x <= Head(s)
    THEN <<x>> \o s
    ELSE <<Head(s)>> \o InsertSorted(Tail(s), x)

RECURSIVE SortedValid(_)
\* the non-missing values of a column, ascending
SortedValid(col) ==
    IF col = <<>>
    THEN <<>>
    ELSE IF Head(col).k = "num"
         THEN InsertSorted(SortedValid(Tail(col)), Head(col).v)
         ELSE SortedValid(Tail(col))

Quantile(col, q) ==
    LET vals == SortedValid(col)
        n == Len(vals)
        pos == (n - 1) * q
        lo == pos \div 100
        fr == pos % 100
    IN  IF n = 0
        THEN NaN
        ELSE IF fr = 0
             THEN Num(vals[lo + 1])
             ELSE Num(vals[lo + 1] + ((vals[lo + 2] - vals[lo + 1]) * fr) \div 100)

\* (mutant) clip(upper=upper) only
ClipUpperOnly(c, lower, upper) ==
    IF c.k = "num" /\ upper.k = "num" /\ c.v > upper.v THEN upper ELSE c

Clip(c, lower, upper) ==
    IF c.k # "num"
    THEN c
    ELSE LET a == IF lower.k = "num" /\ c.v < lower.v THEN lower.v ELSE c.v
             b == IF upper.k = "num" /\ a > upper.v THEN upper.v ELSE a
         IN  Num(b)

WinsorizeColumn(col, limits) ==
    LET lower == Quantile(col, limits)
        upper == Quantile(col, 100 - limits)
    IN  [i \in 1..Len(col) |-> Clip(col[i], lower, upper)]

RECURSIVE WinsorizeFrom(_, _, _)
WinsorizeFrom(t, limits, j) ==
    IF j > Len(t.cols)
    THEN t
    ELSE LET col == t.cols[j]
         IN  IF t.dtype[col] = "number"
             THEN WinsorizeFrom(SetColumn(t, col, "number",
                                          WinsorizeColumn(Column(t, col), limits)),
                                limits, j + 1)
             ELSE WinsorizeFrom(t, limits, j + 1)

winsorize(t, limits) ==
    IF limits <= 0 THEN t ELSE WinsorizeFrom(t, limits, 1)

(***************************************************************************)
(* preprocess.py: impute_missing.  limit 0 stands for None (no limit).     *)
(* ffill and bfill run over every column, the timestamp column included.   *)
(* Pad is pandas' pad loop: the last seen value and the count of cells     *)
(* filled from it.                                                         *)
(***************************************************************************)
RECURSIVE Pad(_, _, _, _, _)
Pad(col, i, val, filled, limit) ==
    IF i > Len(col)
    THEN <<>>
    ELSE IF IsNA(col[i])
         THEN IF limit > 0 /\ filled >= limit
              THEN <<col[i]>> \o Pad(col, i + 1, val, filled, limit)
              ELSE <<val>> \o Pad(col, i + 1, val, filled + 1, limit)
         ELSE <<col[i]>> \o Pad(col, i + 1, col[i], 0, limit)

Reverse(s) == [i \in 1..Len(s) |-> s[Len(s) + 1 - i]]

\* (mutant) the fill runs backward
FFillColumnBackward(col, limit) ==
    IF col = <<>>
    THEN col
    ELSE Reverse(Pad(Reverse(col), 1, col[Len(col)], 0, limit))

\* (mutant) the fill never stops at the limit
FFillColumnUnlimited(col, limit) ==
    IF col = <<>> THEN col ELSE Pad(col, 1, col[1], 0, 0)

FFillColumn(col, limit) ==
    IF col = <<>> THEN col ELSE Pad(col, 1, col[1], 0, limit)

BFillColumn(col, limit) == Reverse(FFillColumn(Reverse(col), limit))

\* The valid cell nearest before (after) position i, 0 when there is none.
PrevValid(col, i) ==
    LET s == {j \in 1..(i - 1) : ~IsNA(col[j])}
    IN  IF s = {} THEN 0 ELSE CHOOSE j \in s : \A x \in s : x <= j

NextValid(col, i) ==
    LET s == {j \in (i + 1)..Len(col) : ~IsNA(col[j])}
    IN  IF s = {} THEN 0 ELSE CHOOSE j \in s : \A x \in s : j <= x

\* interpolate(method="linear", limit_direction="forward"): a gap after a
\* valid cell is filled on the line to the next valid cell, a trailing gap
\* with the last valid value, at most limit cells of each gap; cells before
\* the first valid cell stay missing.
InterpolateColumn(col, limit) ==
    [i \in 1..Len(col) |->
        IF ~IsNA(col[i])
        THEN col[i]
        ELSE LET a == PrevValid(col, i)
                 b == NextValid(col, i)
             IN  IF a = 0 \/ (limit > 0 /\ i - a > limit)
                 THEN col[i]
                 ELSE IF b = 0
                      THEN col[a]
                      ELSE [k |-> col[a].k,
                            v |-> col[a].v
                                  + ((col[b].v - col[a].v) * (i - a)) \div (b - a)]]

\* dtInterp: whether the installed pandas interpolates datetime columns
\* (2.1 and later do; earlier versions pass every non-float block through).
ImputeColumn(col, dt, method, limit, dtInterp) ==
    CASE method = "ffill" -> FFillColumn(col, limit)
      [] method = "bfill" -> BFillColumn(col, limit)
      [] method = "interpolate" ->
            IF dt = "number" \/ (dt = "datetime" /\ dtInterp)
            THEN InterpolateColumn(col, limit)
            ELSE col
      [] OTHER -> col

RECURSIVE ImputeFrom(_, _, _, _, _)
\* the fill applied to the columns from the j-th on
ImputeFrom(t, method, limit, dtInterp, j) ==
    IF j > Len(t.cols)
    THEN t
    ELSE LET col == t.cols[j]
         IN  ImputeFrom(SetColumn(t, col, t.dtype[col],
                                  ImputeColumn(Column(t, col), t.dtype[col],
                                               method, limit, dtInterp)),
                        method, limit, dtInterp, j + 1)

impute_missing(t, method, limit, dtInterp) ==
    IF method \in {"ffill", "bfill", "interpolate"}
    THEN ImputeFrom(t, method, limit, dtInterp, 1)
    ELSE t

\* Whether impute_missing hands back a new table object (ffill, bfill and
\* interpolate build one) or the object it was given.
ImputeCopies(method) == method \in {"ffill", "bfill", "interpolate"}

(***************************************************************************)
(* preprocess.py: validate_schema, missingness_report, prepare_features.   *)
(***************************************************************************)
METRIC_COLUMNS ==
    <<"ticker", "caller", "timestamp", "Open", "high", "close", "low",
      "supply", "eth_daily_tx", "google_trend", "eth_rolling_beta",
      "market_cap", "volume", "btc_open", "btc_high", "btc_low",
      "btc_close", "btc_volume">>

validate_schema(t, required) ==
    LET req == IF required = <<>> THEN METRIC_COLUMNS ELSE required
    IN  SelectSeq(req, LAMBDA col : ~HasCol(t, col))

\* per column the number of missing cells and the number of rows (the
\* ratio is their quotient, undefined for a table without rows)
missingness_report(t) ==
    [col \in Range(t.cols) |->
        [missing_count |-> Cardinality({i \in 1..NRows(t) : IsNA(t.rows[i].c[col])}),
         rows |-> NRows(t)]]

NumericCols(t) ==
    SelectSeq(t.cols, LAMBDA col : t.dtype[col] = "number" /\ col # "timestamp")

\* df[numeric_cols].copy(): a new table of the numeric columns
prepare_features(t) ==
    LET cols == NumericCols(t)
    IN  [cols |-> cols,
         dtype |-> [col \in Range(cols) |-> "number"],
         rows |-> [i \in 1..NRows(t) |->
                     [id |-> t.rows[i].id,
                      c |-> [col \in Range(cols) |-> t.rows[i].c[col]]]]]

(***************************************************************************)
(* pca.py.  The singular values of a matrix are irrational in general, so  *)
(* the model keeps of a decomposition what is exact: which branch ran, the *)
(* shapes of u, s and vt, and the explained-ratio sequence in hundredths.  *)
(* The ratio sequence is exact when the total variance is zero (all zeros) *)
(* and when one column varies (1 then zeros); with two or more varying     *)
(* columns every non-increasing sequence of the grid RatioGrid that sums   *)
(* to 1 is taken as a possible outcome.                                    *)
(***************************************************************************)
ValidIdx(col) == {i \in 1..Len(col) : col[i].k = "num"}

RECURSIVE SumCells(_, _)
SumCells(col, S) ==
    IF S = {}
    THEN 0
    ELSE LET i == CHOOSE x \in S : TRUE
         IN  col[i].v + SumCells(col, S \ {i})

\* std(ddof=0) of the column is neither 0 nor NaN
Varies(col) == \E i, j \in ValidIdx(col) : col[i].v # col[j].v

\* standardize: (df - mean) / std with std 0 replaced by 1.  A scaled cell
\* of a column with m valid cells is held as m * (x - mean), that is in
\* units of 1 / (m * std); a constant column is all zero after centering.
StandardizeColumn(col) ==
    LET m == Cardinality(ValidIdx(col))
        sum == SumCells(col, ValidIdx(col))
    IN  [i \in 1..Len(col) |->
            IF col[i].k = "num" THEN Num(m * col[i].v - sum) ELSE NaN]

RECURSIVE ScaledColumns(_, _)
\* the scaled columns of t from the j-th on
ScaledColumns(t, j) ==
    IF j > Len(t.cols)
    THEN <<>>
    ELSE <<StandardizeColumn(Column(t, t.cols[j]))>> \o ScaledColumns(t, j + 1)

standardize(t) ==
    LET scaled == ScaledColumns(t, 1)
    IN  [cols |-> t.cols,
         dtype |-> t.dtype,
         rows |-> [i \in 1..NRows(t) |->
                     [id |-> t.rows[i].id,
                      c |-> [col \in Range(t.cols) |->
                               scaled[CHOOSE j \in 1..Len(t.cols) : t.cols[j] = col][i]]]]]

\* _sanitize_matrix: every non-finite cell becomes 0
SanitizeCell(c) == IF c.k = "num" THEN c ELSE Num(0)

Min(a, b) == IF a < b THEN a ELSE b

\* (mutant) the all-zero branch is taken for an empty matrix only
PcaBranchEmptyOnly(svdOk, nSamples) ==
    IF svdOk THEN "svd" ELSE IF nSamples < 1 THEN "zeros" ELSE "eigh"

\* the branch of pca_decompose: svdOk is whether np.linalg.svd converges
PcaBranch(svdOk, nSamples) ==
    IF svdOk THEN "svd" ELSE IF nSamples <= 1 THEN "zeros" ELSE "eigh"

RatioGrid == {0, 10, 20, 30, 40, 50, 60, 70, 80, 90, 100}

RECURSIVE SumSeq(_)
SumSeq(s) == IF s = <<>> THEN 0 ELSE Head(s) + SumSeq(Tail(s))

Zeros(n) == [i \in 1..n |-> 0]

\* the explained-ratio sequences a matrix of the given rank can have over
\* len components
RatioOutcomes(rank, len) ==
    IF len = 0
    THEN {<<>>}
    ELSE IF rank <= 0
         THEN {Zeros(len)}
         ELSE IF rank = 1
              THEN {[i \in 1..len |-> IF i = 1 THEN 100 ELSE 0]}
              ELSE {r \in [1..len -> RatioGrid] :
                      /\ SumSeq(r) = 100
                      /\ \A i \in 1..(len - 1) : r[i] >= r[i + 1]
                      /\ \A i \in 1..len : i > rank => r[i] = 0}

RECURSIVE ScaleSeq(_, _)
ScaleSeq(s, q) ==
    IF s = <<>> THEN <<>> ELSE <<Head(s) * q>> \o ScaleSeq(Tail(s), q)

RECURSIVE SquaresFrom(_, _)
\* the sum of the squares of the cells of the columns of x from the j-th on:
\* a scaled column that varies has the square sum of its number of valid
\* cells, any other column is all zero
SquaresFrom(x, j) ==
    IF j > Len(x.cols)
    THEN 0
    ELSE (IF Varies(Column(x, x.cols[j]))
          THEN Cardinality(ValidIdx(Column(x, x.cols[j])))
          ELSE 0) + SquaresFrom(x, j + 1)

\* explained_variance: the squared singular values (the eigenvalues) share
\* out the square sum of x as the spectrum says; in units of
\* 1 / (100 * (n - 1))
ExplainedVariance(x, spectrum) == ScaleSeq(spectrum, SquaresFrom(x, 1))

RECURSIVE DivideSeq(_, _)
\* s / total, in hundredths
DivideSeq(s, total) ==
    IF s = <<>>
    THEN <<>>
    ELSE <<(Head(s) * 100) \div total>> \o DivideSeq(Tail(s), total)

\* (mutant) the variances are returned as the ratios
NormalizeVarianceSkipped(variance) == variance

\* explained_variance / total if total != 0 else explained_variance, the
\* ratio in hundredths
NormalizeVariance(variance) ==
    LET total == SumSeq(variance)
    IN  IF total # 0
        THEN DivideSeq(variance, total)
        ELSE variance

\* pca_decompose of the scaled table x, given whether the SVD converges and
\* the spectrum it finds
pca_decompose(x, svdOk, ratio) ==
    LET n == NRows(x)
        f == Len(x.cols)
        branch == PcaBranch(svdOk, n)
        len == IF branch = "svd" THEN Min(n, f)
               ELSE IF branch = "zeros" THEN Min(n, f) ELSE f
        explained_variance == ExplainedVariance(x, ratio)
    IN  [branch |-> branch,
         u |-> IF branch = "svd" THEN <<n, Min(n, f)>> ELSE <<n, f>>,
         s |-> len,
         vt |-> IF branch = "svd" THEN <<Min(n, f), f>> ELSE <<f, f>>,
         explained_variance |-> explained_variance,
         explained_ratio |-> NormalizeVariance(explained_variance)]

\* the rank of the scaled, sanitized matrix is at most the number of its
\* varying columns, and at most n - 1 since every such column sums to zero
RankBound(x) ==
    Min(Cardinality({col \in Range(x.cols) : Varies(Column(x, col))}),
        NRows(x) - 1)

ComponentCount(x, svdOk) ==
    LET n == NRows(x)
        f == Len(x.cols)
    IN  IF PcaBranch(svdOk, n) = "eigh" THEN f ELSE Min(n, f)

DecomposeChoices(x, svdOk) ==
    IF PcaBranch(svdOk, NRows(x)) = "zeros"
    THEN {Zeros(ComponentCount(x, svdOk))}
    ELSE RatioOutcomes(RankBound(x), ComponentCount(x, svdOk))

RECURSIVE CumSum(_, _)
CumSum(s, acc) ==
    IF s = <<>> THEN <<>> ELSE <<acc + Head(s)>> \o CumSum(Tail(s), acc + Head(s))

RECURSIVE SearchSorted(_, _, _, _)
\* np.searchsorted(a, key), side "left": bisection on lo, hi
SearchSorted(a, key, lo, hi) ==
    IF lo >= hi
    THEN lo
    ELSE LET mid == lo + (hi - lo) \div 2
         IN  IF a[mid + 1] < key
             THEN SearchSorted(a, key, mid + 1, hi)
             ELSE SearchSorted(a, key, lo, mid)

\* (mutant) the components needed for the variance left over
ChooseComponentsResidual(explained_ratio, threshold) ==
    IF Len(explained_ratio) = 0
    THEN 0
    ELSE SearchSorted(CumSum(explained_ratio, 0), 100 - threshold,
                      0, Len(explained_ratio)) + 1

\* (mutant) no early return for an empty sequence
ChooseComponentsOfAnySize(explained_ratio, threshold) ==
    SearchSorted(CumSum(explained_ratio, 0), threshold,
                 0, Len(explained_ratio)) + 1

choose_components(explained_ratio, threshold) ==
    IF Len(explained_ratio) = 0
    THEN 0
    ELSE SearchSorted(CumSum(explained_ratio, 0), threshold,
                      0, Len(explained_ratio)) + 1

\* reconstruct: the shape of the result (rows of u, columns of vt)
reconstruct(u, s, vt, k) == <<u[1], vt[2]>>

\* A matrix is held by its shape and its rows m.
ZeroMatrix(r, c) == [shape |-> <<r, c>>, m |-> [i \in 1..r |-> [j \in 1..c |-> 0]]]

\* (mutant) the singular values are left out of the product
ReconstructUnscaled(u, s, vt, k) ==
    IF k <= 0
    THEN ZeroMatrix(u.shape[1], vt.shape[2])
    ELSE LET w == Min(k, u.shape[2])
         IN  [shape |-> <<u.shape[1], vt.shape[2]>>,
              m |-> [i \in 1..u.shape[1] |->
                       [j \in 1..vt.shape[2] |->
                           SumSeq([c \in 1..w |-> u.m[i][c] * vt.m[c][j]])]]]

\* reconstruct on arrays with values: (u[:, :k] * s[:k]) @ vt[:k, :], the
\* slices taking what there is when k exceeds a dimension
ReconstructMatrix(u, s, vt, k) ==
    IF k <= 0
    THEN ZeroMatrix(u.shape[1], vt.shape[2])
    ELSE LET u_k == [shape |-> <<u.shape[1], Min(k, u.shape[2])>>,
                     m |-> [i \in 1..u.shape[1] |->
                              SubSeq(u.m[i], 1, Min(k, u.shape[2]))]]
             s_k == SubSeq(s, 1, Min(k, Len(s)))
             vt_k == [shape |-> <<Min(k, vt.shape[1]), vt.shape[2]>>,
                      m |-> SubSeq(vt.m, 1, Min(k, vt.shape[1]))]
             scaled == [i \in 1..u_k.shape[1] |->
                          [c \in 1..u_k.shape[2] |-> u_k.m[i][c] * s_k[c]]]
         IN  [shape |-> <<u_k.shape[1], vt_k.shape[2]>>,
              m |-> [i \in 1..u_k.shape[1] |->
                       [j \in 1..vt_k.shape[2] |->
                           SumSeq([c \in 1..u_k.shape[2] |->
                                      scaled[i][c] * vt_k.m[c][j]])]]]

\* (mutant) standardize works in place: df -= mean; df /= std
PcaInputScaledInPlace(t) == standardize(t)

\* what pca_denoise leaves in the table object it was given
PcaInputAfter(t) == t

\* pca_denoise: the denoised table is held by its labels (the columns and
\* the index of the input), the decomposition by pca_decompose's record
pca_denoise(t, threshold, svdOk, ratio) ==
    LET scaled == standardize(t)
        decomp == pca_decompose(scaled, svdOk, ratio)
        k == choose_components(decomp.explained_ratio, threshold)
        recon == reconstruct(decomp.u, decomp.s, decomp.vt, k)
    IN  [input |-> PcaInputAfter(t),
         denoised |-> [cols |-> t.cols,
                       index |-> [i \in 1..NRows(t) |-> t.rows[i].id],
                       shape |-> recon],
         info |-> [branch |-> decomp.branch,
                   u |-> decomp.u,
                   s |-> decomp.s,
                   vt |-> decomp.vt,
                   explained_variance |-> decomp.explained_variance,
                   explained_ratio |-> decomp.explained_ratio,
                   components_used |-> k,
                   reconstruction_error |-> Range(t.cols)]]

(***************************************************************************)
(* linearity.py.  A correlation coefficient is held by what is exact of    *)
(* it: whether it is NaN, its sign, and whether its magnitude is 1.  The   *)
(* coefficient of two columns is taken over the rows where both are valid, *)
(* as DataFrame.corr does.                                                 *)
(***************************************************************************)
CorrNaN == [k |-> "nan", s |-> 0, one |-> FALSE]
CorrZero == [k |-> "val", s |-> 0, one |-> FALSE]
CorrOne == [k |-> "val", s |-> 1, one |-> TRUE]

Sign(x) == IF x > 0 THEN 1 ELSE IF x < 0 THEN -1 ELSE 0

RECURSIVE SumPairsFrom(_, _, _, _, _)
SumPairsFrom(x, y, J, a, b) ==
    IF a > Len(x)
    THEN 0
    ELSE IF b > Len(x)
         THEN SumPairsFrom(x, y, J, a + 1, a + 2)
         ELSE (IF a \in J /\ b \in J THEN (x[a] - x[b]) * (y[a] - y[b]) ELSE 0)
              + SumPairsFrom(x, y, J, a, b + 1)

\* the sum over the pairs a < b of J of (x[a] - x[b]) * (y[a] - y[b])
SumPairs(x, y, J) == SumPairsFrom(x, y, J, 1, 2)

\* Pearson's coefficient of the values x and y over the rows J.  Its
\* magnitude is 1 when the points lie on one line: every pair of rows has
\* the slope of a pair r on which x differs.
Pearson(x, y, J) ==
    LET P == {p \in J \X J : p[1] < p[2]}
    IN  IF \/ \A a, b \in J : x[a] = x[b]
           \/ \A a, b \in J : y[a] = y[b]
        THEN CorrNaN
        ELSE LET r == CHOOSE p \in P : x[p[1]] # x[p[2]]
                 dx == x[r[1]] - x[r[2]]
                 dy == y[r[1]] - y[r[2]]
             IN  [k |-> "val",
                  s |-> Sign(SumPairs(x, y, J)),
                  one |-> \A p \in P :
                             (x[p[1]] - x[p[2]]) * dy = (y[p[1]] - y[p[2]]) * dx]

RECURSIVE RanksFrom(_, _, _)
RanksFrom(x, J, a) ==
    IF a > Len(x)
    THEN <<>>
    ELSE <<IF a \in J
           THEN 2 * Cardinality({b \in J : x[b] < x[a]})
                + Cardinality({b \in J : x[b] = x[a]}) + 1
           ELSE 0>> \o RanksFrom(x, J, a + 1)

\* twice the average rank of x[a] among the rows J
Rank2(x, J) == RanksFrom(x, J, 1)

RECURSIVE ValuesFrom(_, _)
\* the values of the cells of a column
ValuesFrom(col, i) ==
    IF i > Len(col) THEN <<>> ELSE <<col[i].v>> \o ValuesFrom(col, i + 1)

CorrEntry(t, c1, c2, method) ==
    LET x == ValuesFrom(Column(t, c1), 1)
        y == ValuesFrom(Column(t, c2), 1)
        J == ValidIdx(Column(t, c1)) \cap ValidIdx(Column(t, c2))
    IN  IF method = "spearman"
        THEN Pearson(Rank2(x, J), Rank2(y, J), J)
        ELSE Pearson(x, y, J)

RECURSIVE CorrRowFrom(_, _, _, _)
\* the coefficients of column i with the columns j, j + 1, ...
CorrRowFrom(t, method, i, j) ==
    IF j > Len(t.cols)
    THEN <<>>
    ELSE <<CorrEntry(t, t.cols[i], t.cols[j], method)>> \o CorrRowFrom(t, method, i, j + 1)

RECURSIVE CorrUpperFrom(_, _, _)
\* the coefficients of the columns i, i + 1, ..., each with itself and the
\* columns after it
CorrUpperFrom(t, method, i) ==
    IF i > Len(t.cols)
    THEN <<>>
    ELSE <<CorrRowFrom(t, method, i, i)>> \o CorrUpperFrom(t, method, i + 1)

ColPos(t, col) == CHOOSE j \in 1..Len(t.cols) : t.cols[j] = col

\* DataFrame.corr(method): each coefficient is computed once for a pair of
\* columns and written to both places of the matrix
Corr(t, method) ==
    LET upper == CorrUpperFrom(t, method, 1)
    IN  [c1 \in Range(t.cols) |->
           [c2 \in Range(t.cols) |->
               LET i == ColPos(t, c1)
                   j == ColPos(t, c2)
               IN  IF i <= j THEN upper[i][j - i + 1] ELSE upper[j][i - j + 1]]]

\* one tenth, a value that is no binary fraction
Tenth == Unit \div 10

\* Series.std is computed in two passes, the mean and then the squared
\* deviations from it, in floating point.  The sums of the integer values of
\* the model are exact; the sum of three cells 0.1 is not, and the mean it
\* gives is 0.1 + 2^-56, so that the std of a column of three cells 0.1 is
\* 1.7e-17 (of two or four such cells the mean is 0.1 and the std 0).
StdRoundingResidue(col) ==
    /\ Cardinality(ValidIdx(col)) = 3
    /\ \A i \in ValidIdx(col) : col[i].v = Tenth

\* std(skipna=True), ddof 1, is 0 or NaN
StdInvalid(col) == ~Varies(col) /\ ~StdRoundingResidue(col)

TableEmpty(t) == NRows(t) = 0 \/ Len(t.cols) = 0

\* df.select_dtypes(include=[np.number]).columns
SelectNumeric(t) == {col \in Range(t.cols) : t.dtype[col] = "number"}

\* the empty table is <<>>; otherwise the matrix over the numeric columns
correlation_matrix(t, method) ==
    IF TableEmpty(t) \/ SelectNumeric(t) = {}
    THEN <<>>
    ELSE LET corr == Corr(t, method)
             numeric == SelectNumeric(t)
             invalid == {col \in numeric : StdInvalid(Column(t, col))}
         IN  [c1 \in numeric |->
                [c2 \in numeric |->
                    IF c1 \in invalid \/ c2 \in invalid
                    THEN IF c1 = c2 THEN CorrOne ELSE CorrZero
                    ELSE corr[c1][c2]]]

\* vif_scores raises (a ValueError, from df.corr() or from the constructor
\* of the result) on a table with rows that has a column that is no number
VifRaises(t) == ~TableEmpty(t) /\ SelectNumeric(t) # Range(t.cols)

\* (mutant) the missing coefficients are not filled
VifScoresNotFilled(t) ==
    IF TableEmpty(t)
    THEN [feature |-> <<>>, inverted |-> <<>>]
    ELSE [feature |-> t.cols, inverted |-> Corr(t, "pearson")]

\* vif_scores: one row per feature; the matrix handed to np.linalg.pinv is
\* df.corr().fillna(0.0)
vif_scores(t) ==
    IF TableEmpty(t)
    THEN [feature |-> <<>>, inverted |-> <<>>]
    ELSE [feature |-> t.cols,
          inverted |-> LET corr == Corr(t, "pearson")
                       IN  [c1 \in Range(t.cols) |->
                              [c2 \in Range(t.cols) |->
                                  IF corr[c1][c2].k = "nan"
                                  THEN CorrZero
                                  ELSE corr[c1][c2]]]]

linearity_report(t) ==
    [pearson |-> correlation_matrix(t, "pearson"),
     spearman |-> correlation_matrix(t, "spearman"),
     vif |-> vif_scores(t)]

(***************************************************************************)
(* Inputs.  A table has an optional timestamp column, of epoch seconds     *)
(* (with NaN for a missing one) or of text (with text that does not        *)
(* parse), and a close column of prices 1 and 4, with NaN for a gap.       *)
(***************************************************************************)
TsModes == {"none", "epoch", "text"}

TsCells(mode) ==
    IF mode = "epoch" THEN {Num(0), Num(3600), NaN} ELSE {Txt(0), Txt(1), Bad}

CloseCells == {NaN, Num(Unit), Num(4 * Unit)}

MakeTable(mode, ts, close) ==
    IF mode = "none"
    THEN [cols |-> <<"close">>,
          dtype |-> [col \in {"close"} |-> "number"],
          rows |-> [i \in 1..Len(close) |->
                      [id |-> i, c |-> [col \in {"close"} |-> close[i]]]]]
    ELSE [cols |-> <<"timestamp", "close">>,
          dtype |-> [col \in {"timestamp", "close"} |->
                       IF col = "close" \/ mode = "epoch" THEN "number" ELSE "object"],
          rows |-> [i \in 1..Len(close) |->
                      [id |-> i,
                       c |-> [col \in {"timestamp", "close"} |->
                                IF col = "close" THEN close[i] ELSE ts[i]]]]]

\* close columns of n rows with at most one gap (at row g; none for g = 0),
\* the price of row i being 1 for odd i and 4 for even i
OneGapCloses(n) ==
    {[i \in 1..n |-> IF i = g THEN NaN
                     ELSE Num(IF i % 2 = 1 THEN Unit ELSE 4 * Unit)] : g \in 0..n}

TablesOf(mode, n) ==
    IF mode = "none"
    THEN {MakeTable(mode, <<>>, close) : close \in OneGapCloses(n)}
    ELSE {MakeTable(mode, ts, close) :
             ts \in [1..n -> TsCells(mode)], close \in OneGapCloses(n)}

InputTables == UNION {TablesOf(mode, n) : mode \in TsModes, n \in 0..MaxRows}

\* tables of MaxRows rows with distinct, valid epoch timestamps out of order
ProbeTables ==
    {MakeTable("epoch", [i \in 1..MaxRows |-> Num(3600 * ((i * 2) % (MaxRows + 1)))], close) :
        close \in [1..MaxRows -> CloseCells]}

(***************************************************************************)
(* config.py: AnalyticsConfig, with the arguments df (source) and save of  *)
(* analyze_metrics.  source is "df" when the caller passes a table, "csv"  *)
(* when it passes none and input_csv names a file, "none" when it passes   *)
(* neither.  Limits and thresholds are in hundredths; impute_limit 0 is    *)
(* None.                                                                   *)
(***************************************************************************)
DefaultConfig ==
    [source |-> "df",
     pca_variance_threshold |-> 95,
     winsorize_limits |-> 1,
     impute_method |-> "ffill",
     impute_limit |-> 0,
     save |-> TRUE]

ImputeMethods == {"ffill", "bfill", "interpolate", "none"}

Configs ==
    {[DefaultConfig EXCEPT !.impute_method = m, !.impute_limit = l,
                           !.winsorize_limits = w] :
        m \in ImputeMethods, l \in {0, 1}, w \in {0, 1, 25}}
    \cup
    {[DefaultConfig EXCEPT !.pca_variance_threshold = th, !.save = sv,
                           !.source = src] :
        th \in {50, 95, 100}, sv \in BOOLEAN, src \in {"df", "csv"}}

NoArtifacts ==
    [missing |-> <<>>,
     missing_report |-> <<>>,
     features |-> EmptyTable,
     feature_cols |-> <<>>,
     denoised |-> [cols |-> <<>>, index |-> <<>>, shape |-> <<0, 0>>],
     pca_info |-> [branch |-> "", u |-> <<0, 0>>, s |-> 0, vt |-> <<0, 0>>,
                   explained_variance |-> <<>>, explained_ratio |-> <<>>,
                   components_used |-> 0, reconstruction_error |-> {}],
     lin_report |-> [pearson |-> <<>>, spearman |-> <<>>,
                     vif |-> [feature |-> <<>>, inverted |-> <<>>]],
     summary |-> [rows |-> 0, features |-> <<>>, pca_components_used |-> 0],
     saved |-> FALSE]

NoCall == [fn |-> "", arg |-> <<>>]

InitRun(table, cfg) ==
    /\ pc = "start"
    /\ config = cfg
    /\ input0 = table
    /\ caller = table
    /\ df = EmptyTable
    /\ aliased = FALSE
    /\ trace = <<>>
    /\ art = NoArtifacts
    /\ call = NoCall
    /\ ret = <<>>

Init ==
    \/ \E table \in InputTables, m \in ImputeMethods :
          InitRun(table, [DefaultConfig EXCEPT !.impute_method = m])
    \/ \E table \in ProbeTables, cfg \in Configs : InitRun(table, cfg)
    \/ InitRun(EmptyTable, [DefaultConfig EXCEPT !.source = "none"])

(***************************************************************************)
(* pipeline.py: analyze_metrics, one action per stage.  pc names the stage *)
(* that runs next; trace records the stages that ran.  caller is the table *)
(* object the caller passed (for source "csv", the frame load_csv built);  *)
(* aliased says that df is that same object, so that a stage writing to df *)
(* in place writes to caller.                                              *)
(***************************************************************************)
InPlace(t) ==
    /\ df' = t
    /\ caller' = IF aliased THEN t ELSE caller
    /\ UNCHANGED aliased

Step(stage, next) ==
    /\ trace' = Append(trace, stage)
    /\ pc' = next
    /\ UNCHANGED <<config, input0, call, ret>>

\* if df is None: raise ValueError unless config.input_csv; df = load_csv(...)
RaiseNoInput ==
    /\ pc = "start"
    /\ config.source = "none"
    /\ pc' = "raised"
    /\ UNCHANGED <<config, input0, caller, df, aliased, trace, art, call, ret>>

LoadCsv ==
    /\ pc = "start"
    /\ config.source = "csv"
    /\ df' = caller
    /\ aliased' = TRUE
    /\ Step("load", "normalize")
    /\ UNCHANGED <<caller, art>>

UseTable ==
    /\ pc = "start"
    /\ config.source = "df"
    /\ df' = caller
    /\ aliased' = TRUE
    /\ pc' = "normalize"
    /\ UNCHANGED <<config, input0, caller, trace, art, call, ret>>

Normalize ==
    /\ pc = "normalize"
    /\ InPlace(ensure_timestamp_datetime(df))
    /\ Step("normalize", "sort")
    /\ UNCHANGED art

SortDedup ==
    /\ pc = "sort"
    /\ \E p \in SortChoices(df) : df' = sort_dedup(df, p)
    /\ aliased' = (aliased /\ ~HasCol(df, "timestamp"))
    /\ Step("sort", "cast")
    /\ UNCHANGED <<caller, art>>

\* (mutant) the return features are skipped
CastNumericSkipsReturns ==
    /\ pc = "cast"
    /\ InPlace(cast_numeric(df))
    /\ Step("cast", "winsorize")
    /\ UNCHANGED art

CastNumeric ==
    /\ pc = "cast"
    /\ InPlace(cast_numeric(df))
    /\ Step("cast", "returns")
    /\ UNCHANGED art

AddReturns ==
    /\ pc = "returns"
    /\ InPlace(add_return_features(df))
    /\ Step("returns", "winsorize")
    /\ UNCHANGED art

Winsorize ==
    /\ pc = "winsorize"
    /\ InPlace(winsorize(df, config.winsorize_limits))
    /\ Step("winsorize", "impute")
    /\ UNCHANGED art

Impute ==
    /\ pc = "impute"
    /\ \E dtInterp \in BOOLEAN :
          df' = impute_missing(df, config.impute_method, config.impute_limit, dtInterp)
    /\ aliased' = (aliased /\ ~ImputeCopies(config.impute_method))
    /\ Step("impute", "validate")
    /\ UNCHANGED <<caller, art>>

ValidateSchema ==
    /\ pc = "validate"
    /\ art' = [art EXCEPT !.missing = validate_schema(df, <<>>)]
    /\ Step("validate", "missingness")
    /\ UNCHANGED <<caller, df, aliased>>

Missingness ==
    /\ pc = "missingness"
    /\ art' = [art EXCEPT !.missing_report = missingness_report(df)]
    /\ Step("missingness", "features")
    /\ UNCHANGED <<caller, df, aliased>>

PrepareFeatures ==
    /\ pc = "features"
    /\ art' = [art EXCEPT !.features = prepare_features(df),
                          !.feature_cols = NumericCols(df)]
    /\ Step("features", "pca")
    /\ UNCHANGED <<caller, df, aliased>>

PcaDenoise ==
    /\ pc = "pca"
    /\ \E svdOk \in BOOLEAN :
          \E ratio \in DecomposeChoices(standardize(art.features), svdOk) :
             LET r == pca_denoise(art.features, config.pca_variance_threshold,
                                  svdOk, ratio)
             IN  art' = [art EXCEPT !.features = r.input,
                                    !.denoised = r.denoised,
                                    !.pca_info = r.info]
    /\ Step("pca", "diagnostics")
    /\ UNCHANGED <<caller, df, aliased>>

Diagnostics ==
    /\ pc = "diagnostics"
    /\ art' = [art EXCEPT !.lin_report = linearity_report(art.features)]
    /\ Step("diagnostics", "save")
    /\ UNCHANGED <<caller, df, aliased>>

\* if save: write the artifacts and the summary; return df
SaveArtifacts ==
    /\ pc = "save"
    /\ IF config.save
       THEN /\ art' = [art EXCEPT
                          !.summary = [rows |-> NRows(df),
                                       features |-> art.feature_cols,
                                       pca_components_used |->
                                           art.pca_info.components_used],
                          !.saved = TRUE]
            /\ trace' = Append(trace, "summary")
       ELSE UNCHANGED <<art, trace>>
    /\ pc' = "done"
    /\ UNCHANGED <<config, input0, caller, df, aliased, call, ret>>

Next ==
    \/ RaiseNoInput
    \/ LoadCsv
    \/ UseTable
    \/ Normalize
    \/ SortDedup
    \/ CastNumeric
    \/ AddReturns
    \/ Winsorize
    \/ Impute
    \/ ValidateSchema
    \/ Missingness
    \/ PrepareFeatures
    \/ PcaDenoise
    \/ Diagnostics
    \/ SaveArtifacts

Spec == Init /\ [][Next]_vars

(***************************************************************************)
(* The end-to-end scenario: E2ERows rows with distinct hourly epoch         *)
(* timestamps, ascending or descending, and a close column of positive     *)
(* prices with one gap; the default configuration.                         *)
(***************************************************************************)
E2ETables ==
    {MakeTable("epoch",
               [i \in 1..E2ERows |->
                   Num(3600 * (IF up THEN i - 1 ELSE E2ERows - i))],
               [i \in 1..E2ERows |->
                   IF i = g THEN NaN
                   ELSE Num(IF i % 2 = par THEN Unit ELSE 4 * Unit)]) :
        up \in BOOLEAN, g \in 1..E2ERows, par \in {0, 1}}

InitE2E ==
    \/ \E table \in E2ETables, src \in {"df", "csv"} :
          InitRun(table, [DefaultConfig EXCEPT !.source = src])
    \/ InitRun(EmptyTable, [DefaultConfig EXCEPT !.source = "none"])

SpecE2E == InitE2E /\ [][Next]_vars

(***************************************************************************)
(* The functions of the core called on their own: call holds the function  *)
(* and its arguments, ret the results of its calls.  svdOk and ratio are   *)
(* facts about the matrix (whether LAPACK's SVD converges on it, and the   *)
(* spectrum it has), so they are fixed with the input.                     *)
(***************************************************************************)
ColumnTables ==
    UNION {{[cols |-> <<"ticker", "x">>,
             dtype |-> [col \in {"ticker", "x"} |->
                          IF col = "x" THEN "number" ELSE "object"],
             rows |-> [i \in 1..n |->
                         [id |-> i,
                          c |-> [col \in {"ticker", "x"} |->
                                   IF col = "x" THEN x[i] ELSE Txt(0)]]]] :
              x \in [1..n -> {NaN, Num(Unit), Num(2 * Unit), Num(7 * Unit)}]} :
           n \in 0..MaxRows}

WinsorizeCalls ==
    {[fn |-> "winsorize", arg |-> [t |-> t, limits |-> l]] :
        t \in ColumnTables, l \in {-1, 0, 1, 25, 49}}

\* the ratio sequences pca_decompose can return: non-increasing, summing to
\* 1, or all zero
RatioSeqs ==
    UNION {RatioOutcomes(rank, len) : rank \in 0..MaxComp, len \in 0..MaxComp}

Thresholds == {0, 1, 50, 95, 100}

\* a call with a threshold, and a later call with one that is not smaller
ChooseCalls ==
    {[fn |-> "choose_components",
      arg |-> [ratio |-> c[1], threshold |-> c[2], higher |-> c[3]]] :
        c \in {<<r, th, hi>> \in RatioSeqs \X Thresholds \X Thresholds : th <= hi}}

FeatureTables ==
    UNION {{prepare_features(MakeTable("none", <<>>, close)) :
              close \in [1..n -> CloseCells]}
           \cup {prepare_features(add_return_features(MakeTable("none", <<>>, close))) :
                   close \in [1..n -> CloseCells]} :
           n \in 0..MaxRows}

PcaCalls ==
    {[fn |-> "pca_denoise",
      arg |-> [t |-> c[1], threshold |-> c[2], svdOk |-> c[3], ratio |-> c[4]]] :
        c \in UNION {{<<t, th, ok, r>> : r \in DecomposeChoices(standardize(t), ok)} :
                        t \in FeatureTables, th \in {0, 50, 95, 100}, ok \in BOOLEAN}}

\* decompositions of n samples, f features and c components: arrays with
\* entries in -1..1 and positive singular values (x is not given), and the
\* SVD of a diagonal matrix x with a non-increasing positive diagonal
ReconstructCalls(maxDim) ==
    {[fn |-> "reconstruct",
      arg |-> [x |-> <<>>,
               u |-> [shape |-> <<d[1], d[2]>>,
                      m |-> [i \in 1..d[1] |-> [c \in 1..d[2] |-> ((i + 2 * c + d[4]) % 3) - 1]]],
               s |-> [c \in 1..d[2] |-> (d[2] + 1 - c) * (1 + d[5])],
               vt |-> [shape |-> <<d[2], d[3]>>,
                       m |-> [c \in 1..d[2] |-> [j \in 1..d[3] |-> ((2 * c + j + d[5]) % 3) - 1]]],
               k |-> d[6]]] :
        d \in (0..maxDim) \X (0..maxDim) \X (0..maxDim) \X (0..2) \X (0..1)
               \X (0..(maxDim + 1))}
    \cup
    {[fn |-> "reconstruct",
      arg |-> [x |-> [shape |-> <<d[1], d[2]>>,
                      m |-> [i \in 1..d[1] |->
                               [j \in 1..d[2] |->
                                   IF i = j THEN (Min(d[1], d[2]) + 1 - i) * d[3] ELSE 0]]],
               u |-> [shape |-> <<d[1], Min(d[1], d[2])>>,
                      m |-> [i \in 1..d[1] |->
                               [c \in 1..Min(d[1], d[2]) |-> IF i = c THEN 1 ELSE 0]]],
               s |-> [c \in 1..Min(d[1], d[2]) |-> (Min(d[1], d[2]) + 1 - c) * d[3]],
               vt |-> [shape |-> <<Min(d[1], d[2]), d[2]>>,
                       m |-> [c \in 1..Min(d[1], d[2]) |->
                                [j \in 1..d[2] |-> IF c = j THEN 1 ELSE 0]]],
               k |-> d[4]]] :
        d \in (0..maxDim) \X (0..maxDim) \X (1..2) \X (0..(maxDim + 1))}

InitFn ==
    /\ pc = "call"
    /\ config = DefaultConfig
    /\ input0 = EmptyTable
    /\ caller = EmptyTable
    /\ df = EmptyTable
    /\ aliased = FALSE
    /\ trace = <<>>
    /\ art = NoArtifacts
    /\ call \in WinsorizeCalls \cup ChooseCalls \cup PcaCalls
                \cup ReconstructCalls(MaxComp)
    /\ ret = <<>>

Returns(result) ==
    /\ ret' = Append(ret, result)
    /\ UNCHANGED <<pc, config, input0, caller, df, aliased, trace, art, call>>

CallWinsorize ==
    /\ pc = "call"
    /\ call.fn = "winsorize"
    /\ ret = <<>>
    /\ Returns(winsorize(call.arg.t, call.arg.limits))

CallChooseComponents ==
    /\ pc = "call"
    /\ call.fn = "choose_components"
    /\ ret = <<>>
    /\ Returns(choose_components(call.arg.ratio, call.arg.threshold))

CallChooseComponentsHigher ==
    /\ pc = "call"
    /\ call.fn = "choose_components"
    /\ Len(ret) = 1
    /\ Returns(choose_components(call.arg.ratio, call.arg.higher))

\* pca_denoise leaves its input as it was, so a second call has the same
\* input
CallPcaDenoise ==
    /\ pc = "call"
    /\ call.fn = "pca_denoise"
    /\ Len(ret) < MaxCalls
    /\ PcaInputAfter(call.arg.t) = call.arg.t
    /\ Returns(pca_denoise(call.arg.t, call.arg.threshold,
                           call.arg.svdOk, call.arg.ratio))

CallReconstruct ==
    /\ pc = "call"
    /\ call.fn = "reconstruct"
    /\ ret = <<>>
    /\ Returns(ReconstructMatrix(call.arg.u, call.arg.s, call.arg.vt, call.arg.k))

NextFn ==
    \/ CallReconstruct
    \/ CallWinsorize
    \/ CallChooseComponents
    \/ CallChooseComponentsHigher
    \/ CallPcaDenoise

SpecFn == InitFn /\ [][NextFn]_vars

(***************************************************************************)
(* Properties of analyze_metrics.                                          *)
(***************************************************************************)
Timestamps(t) == Column(t, "timestamp")

\* C1: in the cleaned table that analyze_metrics returns the timestamps are
\* pairwise distinct and strictly increasing in row order (a missing
\* timestamp is taken to be distinct from, and not smaller than, a valid one).
C1_CleanedTimestampsStrictlyIncreasing ==
    (pc = "done" /\ HasCol(df, "timestamp")) =>
        \A i, j \in 1..NRows(df) :
            i < j =>
                LET x == Timestamps(df)[i]
                    y == Timestamps(df)[j]
                IN  /\ x # y
                    /\ (x.k = "dt" /\ y.k = "dt") => x.v < y.v

StagePos(order, stage) == CHOOSE i \in 1..Len(order) : order[i] = stage

\* the stages of tr are stages of order, in the order of order, each once
FollowsOrder(tr, order) ==
    /\ \A i \in 1..Len(tr) : \E k \in 1..Len(order) : order[k] = tr[i]
    /\ \A i \in 1..(Len(tr) - 1) :
          StagePos(order, tr[i]) < StagePos(order, tr[i + 1])

ClaimedOrder ==
    <<"load", "validate", "normalize", "sort", "cast", "returns", "winsorize",
      "impute", "missingness", "features", "pca", "diagnostics", "summary">>

CodeOrder ==
    <<"load", "normalize", "sort", "cast", "returns", "winsorize", "impute",
      "validate", "missingness", "features", "pca", "diagnostics", "summary">>

\* C2 as stated: the stages run in the order load and schema validation,
\* normalize, sort/dedup, cast, returns, winsorize, impute, missingness,
\* features, PCA, diagnostics, summary, each at most once.
C2_StagesInClaimedOrder == FollowsOrder(trace, ClaimedOrder)

\* C2 as amended: the stages run in the order load (when no table is passed),
\* normalize, sort/dedup, cast, returns, winsorize, impute, schema validation,
\* missingness, features, PCA, diagnostics, summary (when save is set), each
\* at most once, and a run that returns has run every one of them.
C2_StagesInCodeOrder ==
    /\ FollowsOrder(trace, CodeOrder)
    /\ pc = "done" =>
          \A stage \in Range(CodeOrder) :
              stage \in Range(trace) <=>
                  CASE stage = "load" -> config.source = "csv"
                    [] stage = "summary" -> config.save
                    [] OTHER -> TRUE

C2_Witness == pc = "done" /\ Len(trace) = Len(CodeOrder)

\* C3: sort_dedup returns the rows in ascending timestamp order, one row per
\* distinct timestamp, and the row that survives for a timestamp is the one
\* that was last among the input rows with that timestamp (caller holds the
\* table sort_dedup was given; a row's id is its position in it).
C3_SortDedupKeepsLastInInputOrder ==
    (pc = "cast" /\ HasCol(df, "timestamp")) =>
        /\ \A i, j \in 1..NRows(df) :
              i < j =>
                  LET x == Timestamps(df)[i]
                      y == Timestamps(df)[j]
                  IN  /\ x # y
                      /\ IsNA(x) => IsNA(y)
                      /\ (~IsNA(x) /\ ~IsNA(y)) => x.v < y.v
        /\ \A r \in 1..NRows(caller) :
              \E i \in 1..NRows(df) : Timestamps(df)[i] = Timestamps(caller)[r]
        /\ \A i \in 1..NRows(df) :
              /\ df.rows[i].id \in 1..NRows(caller)
              /\ caller.rows[df.rows[i].id] = df.rows[i]
              /\ \A r \in 1..NRows(caller) :
                    Timestamps(caller)[r] = Timestamps(df)[i] => r <= df.rows[i].id

SameContent(a, b) == a.cols = b.cols /\ a.rows = b.rows

\* C7: analyze_metrics works on its own copies: the table the caller passed
\* has the same columns, the same cells and the same row order as before the
\* call, at every point of the run.
C7_CallerTableUnchanged ==
    config.source = "df" => SameContent(caller, input0)

\* C8: pca_denoise and linearity_report receive the feature matrix of the one
\* prepare_features call, pca_denoise leaves it unchanged, and the
\* diagnostics report is the report of that matrix whatever the threshold.
C8_FeatureMatrixUnchangedByPca ==
    /\ pc \in {"diagnostics", "save", "done"} => art.features = prepare_features(df)
    /\ pc \in {"save", "done"} =>
          art.lin_report = linearity_report(prepare_features(df))

C8_Witness ==
    /\ pc = "done"
    /\ config.pca_variance_threshold # DefaultConfig.pca_variance_threshold
    /\ art.pca_info.components_used >= 1
    /\ \E col \in Range(art.features.cols) : Varies(Column(art.features, col))
    /\ art.lin_report.pearson # <<>>

(***************************************************************************)
(* Properties of the PCA engine and of winsorize, under SpecFn.            *)
(***************************************************************************)
\* C4: for a non-empty ratio sequence and a threshold in (0, 1],
\* choose_components returns the smallest k >= 1 whose first k ratios sum to
\* at least the threshold; for an empty sequence it returns 0.
C4_ChooseComponentsSmallestPrefix ==
    (call.fn = "choose_components" /\ ret # <<>> /\ call.arg.threshold \in 1..100) =>
        LET r == call.arg.ratio
            k == ret[1]
            cum == CumSum(r, 0)
        IN  IF Len(r) = 0
            THEN k = 0
            ELSE /\ k \in 1..Len(r)
                 /\ cum[k] >= call.arg.threshold
                 /\ \A j \in 1..(k - 1) : cum[j] < call.arg.threshold

\* C5: for a feature matrix of one numeric column and at least one row,
\* pca_denoise reports components_used = 1 for every threshold <= 1.
C5_SingleFeatureUsesOneComponent ==
    (/\ call.fn = "pca_denoise"
     /\ ret # <<>>
     /\ Len(call.arg.t.cols) = 1
     /\ NRows(call.arg.t) >= 1
     /\ call.arg.threshold <= 100) =>
        \A i \in 1..Len(ret) : ret[i].info.components_used = 1

C10_WinsorizeWithinQuantiles ==
    (call.fn = "winsorize" /\ ret # <<>>) =>
        LET t0 == call.arg.t
            r == ret[1]
            lim == call.arg.limits
        IN  /\ lim <= 0 => r = t0
            /\ (0 < lim /\ lim < 50) =>
                  /\ r.cols = t0.cols
                  /\ NRows(r) = NRows(t0)
                  /\ \A col \in {c \in Range(t0.cols) : t0.dtype[c] = "number"} :
                        LET lo == Quantile(Column(t0, col), lim)
                            hi == Quantile(Column(t0, col), 100 - lim)
                        IN  \A i \in 1..NRows(r) :
                               r.rows[i].c[col].k = "num" =>
                                   /\ lo.v <= r.rows[i].c[col].v
                                   /\ r.rows[i].c[col].v <= hi.v

C10_Witness ==
    /\ call.fn = "winsorize"
    /\ ret # <<>>
    /\ call.arg.limits \in 1..49
    /\ \E i \in 1..NRows(call.arg.t) :
          /\ call.arg.t.rows[i].c["x"].k = "num"
          /\ ret[1].rows[i].c["x"] # call.arg.t.rows[i].c["x"]

(***************************************************************************)
(* The end-to-end scenario, under SpecE2E.                                 *)
(***************************************************************************)
\* the position, in timestamp order, of the row of t whose close is missing
GapRank(t) ==
    LET g == CHOOSE i \in 1..NRows(t) : IsNA(t.rows[i].c["close"])
    IN  1 + Cardinality({j \in 1..NRows(t) :
                           t.rows[j].c["timestamp"].v < t.rows[g].c["timestamp"].v})

\* the cleaned table has every input row and no missing timestamp, and its
\* eth_return is missing in the rows 1..k and finite in the others
ReturnsMissingUpTo(t, k) ==
    /\ NRows(t) = E2ERows
    /\ \A i \in 1..NRows(t) : t.rows[i].c["timestamp"].k = "dt"
    /\ \A i \in 1..NRows(t) : (t.rows[i].c["eth_return"].k = "num") <=> (i > k)

\* C6 as stated: wherever the one missing close is, the cleaned table has
\* all the rows, no missing timestamp, a missing eth_return in the first row
\* and a finite one in every other row.
C6_ReturnsFiniteAfterFirstRow ==
    pc = "done" => ReturnsMissingUpTo(df, 1)

\* C6 as amended: that holds when the missing close is in the third row or
\* later in timestamp order; when it is in the first row eth_return is
\* missing in the first two rows, and when it is in the second row in the
\* first three.
C6_ReturnsFiniteAfterFirstRowFromThirdGap ==
    pc = "done" =>
        ReturnsMissingUpTo(df, IF GapRank(input0) >= 3 THEN 1 ELSE GapRank(input0) + 1)

C6_Witness ==
    /\ pc = "done"
    /\ GapRank(input0) >= 3
    /\ GapRank(input0) < E2ERows
    /\ ReturnsMissingUpTo(df, 1)

(***************************************************************************)
(* Direct calls of the preprocessing, diagnostics and PCA functions:       *)
(* call holds the function and its arguments, ret the results.             *)
(***************************************************************************)
ImputeLimits == {0, 1, 2}

ImputeCalls(tables) ==
    {[fn |-> "impute_missing", arg |-> [t |-> t, method |-> m, limit |-> l]] :
        t \in tables, m \in ImputeMethods, l \in ImputeLimits}

NormalizeCalls(tables) ==
    {[fn |-> "normalize_sort_dedup", arg |-> [t |-> t]] : t \in tables}

\* raw tables: a ticker column of text, a timestamp column of epoch seconds
\* or of text, and a close column read from a file as text: a number, a
\* text that reads as a number, a text that does not, a missing cell, in turn
\* from the row shift on
RawCloseCells == <<Num(Unit), Txt(2 * Unit), Bad, NaN>>

\* of at most maxRows rows
RawTables(maxRows) ==
    UNION {{[cols |-> <<"ticker", "timestamp", "close">>,
             dtype |-> [col \in {"ticker", "timestamp", "close"} |->
                          IF col = "timestamp" /\ mode = "epoch"
                          THEN "number" ELSE "object"],
             rows |-> [i \in 1..n |->
                         [id |-> i,
                          c |-> [col \in {"ticker", "timestamp", "close"} |->
                                   CASE col = "ticker" -> Bad
                                     [] col = "timestamp" -> ts[i]
                                     [] OTHER -> RawCloseCells[1 + ((i + shift) % 4)]]]]] :
              ts \in [1..n -> TsCells(mode)], shift \in 0..3} :
           mode \in {"epoch", "text"}, n \in 0..maxRows}

CoerceCalls(tables) ==
    {[fn |-> f, arg |-> [t |-> t]] :
        f \in {"ensure_timestamp_datetime", "cast_numeric"}, t \in tables}

\* tables of one text column, and tables of rows without columns
TextTables(maxRows) ==
    UNION {{[cols |-> <<"ticker">>,
             dtype |-> [col \in {"ticker"} |-> "object"],
             rows |-> [i \in 1..n |-> [id |-> i, c |-> [col \in {"ticker"} |-> Bad]]]],
            [cols |-> <<>>,
             dtype |-> <<>>,
             rows |-> [i \in 1..n |-> [id |-> i, c |-> <<>>]]]} :
           n \in 0..maxRows}

\* feature matrices of a close column of cells 0.1 and a volume column
TenthTables(maxRows) ==
    UNION {{[cols |-> <<"close", "volume">>,
             dtype |-> [col \in {"close", "volume"} |-> "number"],
             rows |-> [i \in 1..n |->
                         [id |-> i,
                          c |-> [col \in {"close", "volume"} |->
                                   IF col = "close" THEN close[i] ELSE volume[i]]]]] :
              close \in [1..n -> {NaN, Num(Tenth)}],
              volume \in [1..n -> {Num(Unit), Num(2 * Unit)}]} :
           n \in 1..maxRows}

DiagnosticsCalls(tables) ==
    {[fn |-> "correlation_matrix", arg |-> [t |-> t, method |-> m]] :
        t \in tables, m \in {"pearson", "spearman"}}
        \cup {[fn |-> "vif_scores", arg |-> [t |-> t]] : t \in tables}

\* the calls on tables of at most maxRows rows
\* required is <<>> when the argument is left out, <<list>> when a list is
\* given
ValidateCalls(tables) ==
    {[fn |-> "validate_schema", arg |-> [t |-> t, required |-> r]] :
        t \in tables,
        r \in {<<>>, <<<<>>>>, <<<<"close">>>>, <<<<"volume", "close", "ticker">>>>}}

LibCalls(maxRows) ==
    ValidateCalls(FeatureTables) \cup
    ImputeCalls(ColumnTables)
        \cup NormalizeCalls(InputTables)
        \cup CoerceCalls(RawTables(maxRows))
        \cup DiagnosticsCalls(FeatureTables \cup TextTables(maxRows)
                                 \cup TenthTables(maxRows))

InitLib ==
    /\ pc = "lib"
    /\ config = DefaultConfig
    /\ input0 = EmptyTable
    /\ caller = EmptyTable
    /\ df = EmptyTable
    /\ aliased = FALSE
    /\ trace = <<>>
    /\ art = NoArtifacts
    /\ call \in LibCalls(MaxRows)
    /\ ret = <<>>

LibCall(fn) ==
    /\ pc = "lib"
    /\ call.fn = fn
    /\ ret = <<>>

CallImputeMissing ==
    /\ LibCall("impute_missing")
    /\ \E dtInterp \in BOOLEAN :
          Returns(impute_missing(call.arg.t, call.arg.method, call.arg.limit, dtInterp))

\* sort_dedup(ensure_timestamp_datetime(t)), first of the table of the call
\* and then of the result
CallNormalizeSortDedup ==
    /\ pc = "lib"
    /\ call.fn = "normalize_sort_dedup"
    /\ Len(ret) < 2
    /\ LET t == IF ret = <<>> THEN call.arg.t ELSE ret[Len(ret)]
           n == ensure_timestamp_datetime(t)
       IN  \E p \in SortChoices(n) : Returns(sort_dedup(n, p))

CallEnsureTimestamp ==
    /\ LibCall("ensure_timestamp_datetime")
    /\ Returns(ensure_timestamp_datetime(call.arg.t))

CallCastNumeric ==
    /\ LibCall("cast_numeric")
    /\ Returns(cast_numeric(call.arg.t))

CallCorrelationMatrix ==
    /\ LibCall("correlation_matrix")
    /\ Returns(correlation_matrix(call.arg.t, call.arg.method))

\* a call that raises ends in pc = "raised" without a result
CallVifScores ==
    /\ LibCall("vif_scores")
    /\ ~VifRaises(call.arg.t)
    /\ Returns(vif_scores(call.arg.t))

CallVifScoresRaises ==
    /\ LibCall("vif_scores")
    /\ VifRaises(call.arg.t)
    /\ pc' = "raised"
    /\ UNCHANGED <<config, input0, caller, df, aliased, trace, art, call, ret>>

\* an argument left out is None
CallValidateSchema ==
    /\ LibCall("validate_schema")
    /\ Returns(validate_schema(call.arg.t,
                               IF call.arg.required = <<>>
                               THEN <<>>
                               ELSE call.arg.required[1]))

NextLib ==
    \/ CallValidateSchema
    \/ CallCorrelationMatrix
    \/ CallVifScores
    \/ CallVifScoresRaises
    \/ CallImputeMissing
    \/ CallEnsureTimestamp
    \/ CallCastNumeric
    \/ CallNormalizeSortDedup

SpecLib == InitLib /\ [][NextLib]_vars

(***************************************************************************)
(* Properties of the preprocessing functions, under SpecLib.               *)
(***************************************************************************)
\* the cell a fill with this limit (0: none) may copy into position i of
\* col from position a (0: there is no source)
FillSource(col, i, a, limit) ==
    /\ a # 0
    /\ limit = 0 \/ (IF a < i THEN i - a ELSE a - i) <= limit

\* C11: forward fill (backward fill) with limit L fills a missing cell if
\* and only if the nearest earlier (later) non-missing cell of its column is
\* at most L rows away, with that cell's value; the other missing cells stay
\* missing and non-missing cells keep their value; a method that is none of
\* ffill, bfill and interpolate returns the table unchanged.
C11_FillReachesLimitRowsFromSource ==
    (call.fn = "impute_missing" /\ ret # <<>>) =>
        LET t0 == call.arg.t
            r == ret[1]
            lim == call.arg.limit
        IN  /\ call.arg.method \notin {"ffill", "bfill", "interpolate"} => r = t0
            /\ call.arg.method \in {"ffill", "bfill"} =>
                  /\ r.cols = t0.cols
                  /\ NRows(r) = NRows(t0)
                  /\ \A col \in Range(t0.cols) : \A i \in 1..NRows(t0) :
                        LET c0 == Column(t0, col)
                            a == IF call.arg.method = "ffill"
                                 THEN PrevValid(c0, i)
                                 ELSE NextValid(c0, i)
                        IN  r.rows[i].c[col] =
                               IF IsNA(c0[i]) /\ FillSource(c0, i, a, lim)
                               THEN c0[a]
                               ELSE c0[i]

C11_Witness ==
    /\ call.fn = "impute_missing"
    /\ ret # <<>>
    /\ call.arg.method = "ffill"
    /\ call.arg.limit = 1
    /\ \E i, j \in 1..NRows(call.arg.t) :
          /\ call.arg.t.rows[i].c["x"] = NaN
          /\ ret[1].rows[i].c["x"] # NaN
          /\ call.arg.t.rows[j].c["x"] = NaN
          /\ PrevValid(Column(call.arg.t, "x"), j) # 0
          /\ ret[1].rows[j].c["x"] = NaN

\* C12: ensure_timestamp_datetime followed by sort_dedup, applied to its
\* own result, returns that result: the same rows in the same order with
\* the same cells.
C12_NormalizeSortDedupIdempotent ==
    (call.fn = "normalize_sort_dedup" /\ Len(ret) = 2) => ret[2] = ret[1]

C12_Witness ==
    /\ call.fn = "normalize_sort_dedup"
    /\ Len(ret) = 2
    /\ ret[2] = ret[1]
    /\ NRows(ret[1]) >= 2
    /\ NRows(ret[1]) < NRows(call.arg.t)
    /\ \E i \in 1..NRows(ret[1]) : ret[1].rows[i].id # i

\* a timestamp cell that parses: a number in a numeric column, a text that
\* names a time in any other column
ParsesAsTime(c, dtype) == IF dtype = "number" THEN c.k = "num" ELSE c.k = "txt"

\* C13: ensure_timestamp_datetime and cast_numeric return a table (they do
\* not raise) with every row of the input; a timestamp that does not parse
\* and a cell that is no number become missing, the cells that parse keep
\* their value, and cast_numeric leaves ticker, caller and timestamp as
\* they were.
C13_UnparseableBecomesMissing ==
    (call.fn \in {"ensure_timestamp_datetime", "cast_numeric"} /\ ret # <<>>) =>
        LET t0 == call.arg.t
            r == ret[1]
        IN  /\ pc # "raised"
            /\ r.cols = t0.cols
            /\ NRows(r) = NRows(t0)
            /\ \A i \in 1..NRows(t0) : r.rows[i].id = t0.rows[i].id
            /\ call.fn = "ensure_timestamp_datetime" =>
                  \A i \in 1..NRows(t0) :
                     /\ \A col \in Range(t0.cols) \ {"timestamp"} :
                           r.rows[i].c[col] = t0.rows[i].c[col]
                     /\ IF ParsesAsTime(t0.rows[i].c["timestamp"], t0.dtype["timestamp"])
                        THEN /\ r.rows[i].c["timestamp"].k = "dt"
                             /\ \A j \in 1..NRows(t0) :
                                   (t0.rows[j].c["timestamp"] = t0.rows[i].c["timestamp"])
                                      <=> (r.rows[j].c["timestamp"] = r.rows[i].c["timestamp"])
                        ELSE r.rows[i].c["timestamp"] = NaT
            /\ call.fn = "cast_numeric" =>
                  \A i \in 1..NRows(t0) : \A col \in Range(t0.cols) :
                     LET c0 == t0.rows[i].c[col]
                     IN  r.rows[i].c[col] =
                            CASE col \in {"ticker", "caller", "timestamp"} -> c0
                              [] c0.k \in {"num", "txt"} -> Num(c0.v)
                              [] OTHER -> NaN

C13_Witness ==
    /\ call.fn = "cast_numeric"
    /\ ret # <<>>
    /\ \E i, j \in 1..NRows(call.arg.t) :
          /\ call.arg.t.rows[i].c["close"] = Bad
          /\ ret[1].rows[i].c["close"] = NaN
          /\ call.arg.t.rows[j].c["close"].k = "txt"
          /\ ret[1].rows[j].c["close"].k = "num"
          /\ call.arg.t.rows[i].c["timestamp"] = Bad
          /\ ret[1].rows[i].c["timestamp"] = Bad

(***************************************************************************)
(* Properties of the diagnostics and of the PCA engine, under SpecLib and  *)
(* SpecFn.                                                                 *)
(***************************************************************************)
\* C17: in every decomposition, when the explained variances have a nonzero
\* sum each explained ratio is the variance divided by the sum and the
\* ratios sum to 1; when the sum is zero the ratios are the variances, all
\* zero.
C17_RatioIsVarianceOverTotal ==
    (call.fn = "pca_denoise" /\ ret # <<>>) =>
        \A c \in 1..Len(ret) :
           LET var == ret[c].info.explained_variance
               ratio == ret[c].info.explained_ratio
               total == SumSeq(var)
           IN  /\ Len(ratio) = Len(var)
               /\ total # 0 =>
                     /\ \A i \in 1..Len(var) : ratio[i] * total = var[i] * 100
                     /\ SumSeq(ratio) = 100
               /\ total = 0 =>
                     /\ ratio = var
                     /\ \A i \in 1..Len(var) : ratio[i] = 0

C17_Witness ==
    /\ call.fn = "pca_denoise"
    /\ ret # <<>>
    /\ Len(ret[1].info.explained_variance) >= 2
    /\ ret[1].info.explained_variance[2] > 0
    /\ ret[1].info.explained_variance # ret[1].info.explained_ratio

\* C14: for a feature matrix with at least one row and one numeric column
\* and for both methods, correlation_matrix returns a symmetric matrix with
\* 1.0 on the diagonal in which every column of zero or undefined standard
\* deviation has 0.0 in its row and column off the diagonal.
C14_CorrelationMatrixWellFormed ==
    (/\ call.fn = "correlation_matrix"
     /\ ret # <<>>
     /\ NRows(call.arg.t) >= 1
     /\ SelectNumeric(call.arg.t) # {}) =>
        LET t == call.arg.t
            m == ret[1]
            cols == SelectNumeric(t)
        IN  /\ m # <<>>
            /\ DOMAIN m = cols
            /\ \A c1 \in cols :
                  /\ DOMAIN m[c1] = cols
                  /\ m[c1][c1] = CorrOne
                  /\ \A c2 \in cols : m[c1][c2] = m[c2][c1]
                  /\ ~Varies(Column(t, c1)) =>
                        \A c2 \in cols \ {c1} : m[c1][c2] = CorrZero /\ m[c2][c1] = CorrZero

\* the Pearson matrix of correlation_matrix with its missing entries set to 0
ReportedCorrelationFilled(t) ==
    LET m == correlation_matrix(t, "pearson")
    IN  [c1 \in DOMAIN m |->
           [c2 \in DOMAIN m[c1] |-> IF m[c1][c2].k = "nan" THEN CorrZero ELSE m[c1][c2]]]

\* C15: the matrix vif_scores pseudo-inverts is the Pearson matrix that
\* correlation_matrix returns for the same feature matrix, with any missing
\* entry set to zero: a feature without variance has 0.0 in its row and
\* column and 1.0 on the diagonal.
C15_VifMatrixFollowsReportedConvention ==
    (/\ call.fn = "vif_scores"
     /\ ret # <<>>
     /\ ~TableEmpty(call.arg.t)) =>
        LET t == call.arg.t
            m == ret[1].inverted
        IN  /\ \A c1, c2 \in Range(t.cols) : m[c1][c2] = ReportedCorrelationFilled(t)[c1][c2]
            /\ \A c \in Range(t.cols) : m[c][c] = CorrOne

\* C16: for a non-empty feature matrix, one with two perfectly correlated
\* columns included, vif_scores returns (it does not raise) one row per
\* feature column, and the matrix it pseudo-inverts has no missing entry, so
\* that every score is finite.
C16_VifOneFiniteScorePerFeature ==
    (/\ call.fn = "vif_scores"
     /\ ~TableEmpty(call.arg.t)
     /\ SelectNumeric(call.arg.t) = Range(call.arg.t.cols)) =>
        /\ pc # "raised"
        /\ ret # <<>> =>
              /\ ret[1].feature = call.arg.t.cols
              /\ \A c1, c2 \in Range(call.arg.t.cols) : ret[1].inverted[c1][c2].k = "val"

C16_Witness ==
    /\ call.fn = "vif_scores"
    /\ ret # <<>>
    /\ Len(call.arg.t.cols) = 2
    /\ NRows(call.arg.t) >= 2
    /\ ret[1].feature = call.arg.t.cols
    /\ \E c1, c2 \in Range(call.arg.t.cols) : c1 # c2 /\ ret[1].inverted[c1][c2].one

\* C20: for a feature matrix with no rows or no numeric columns
\* correlation_matrix returns an empty table for both methods and vif_scores
\* an empty table (with the columns feature and vif); neither raises.
C20_EmptyMatrixEmptyDiagnostics ==
    (/\ call.fn \in {"correlation_matrix", "vif_scores"}
     /\ NRows(call.arg.t) = 0 \/ SelectNumeric(call.arg.t) = {}) =>
        /\ pc # "raised"
        /\ ret # <<>> =>
              IF call.fn = "correlation_matrix"
              THEN ret[1] = <<>>
              ELSE ret[1].feature = <<>> /\ ret[1].inverted = <<>>

\* C18: for every explained-ratio sequence and thresholds t1 <= t2 in [0, 1],
\* choose_components(ratio, t1) <= choose_components(ratio, t2).
C18_ChooseComponentsMonotone ==
    (call.fn = "choose_components" /\ Len(ret) = 2) => ret[1] <= ret[2]

C18_Witness ==
    /\ call.fn = "choose_components"
    /\ Len(ret) = 2
    /\ call.arg.threshold < call.arg.higher
    /\ Len(call.arg.ratio) >= 2
    /\ ret[1] < ret[2]

\* C19: when the input table of analyze_metrics has zero rows the run does
\* not raise and goes on to its end; at the end the denoised table, both
\* correlation tables, the VIF table and the explained-ratio sequence are
\* empty and the number of PCA components used is 0.
C19_EmptyInputEmptyArtifacts ==
    (NRows(input0) = 0 /\ config.source = "df" /\ call = NoCall) =>
        /\ pc # "raised"
        /\ pc # "done" => ENABLED Next
        /\ pc = "done" =>
              /\ art.denoised.shape[1] = 0
              /\ art.denoised.index = <<>>
              /\ art.lin_report.pearson = <<>>
              /\ art.lin_report.spearman = <<>>
              /\ art.lin_report.vif.feature = <<>>
              /\ art.pca_info.explained_ratio = <<>>
              /\ art.pca_info.components_used = 0
              /\ art.summary.pca_components_used = 0

C19_Witness ==
    /\ pc = "done"
    /\ config.source = "df"
    /\ NRows(input0) = 0
    /\ "timestamp" \in Range(input0.cols)
    /\ art.feature_cols # <<>>
    /\ art.saved
    /\ art.pca_info.components_used = 0

(***************************************************************************)
(* The metrics package.  A time is a number of units of 30 days; an        *)
(* optional argument is <<>> for None and <<v>> for the value v.  now is   *)
(* what now_utc() returns during the call.  trace records the effects of a *)
(* call after its parameter check: "resolve" for the computed range,       *)
(* "request" for the first access to the network or the file system.       *)
(***************************************************************************)
MaxTime == 3

Times == 0..MaxTime

Periods == (0 - 1)..2

\* period = "60d"
DefaultPeriod == 2

Optional(S) == {<<>>} \cup {<<v>> : v \in S}

\* resolve_time_range: the pair returned, or the ValueError raised
resolve_time_range(start, end, period, now) ==
    LET end_ts == IF end = <<>> THEN now ELSE end[1]
    IN  IF start = <<>>
        THEN [raised |-> FALSE,
              start_ts |-> end_ts - (IF period = <<>> THEN DefaultPeriod ELSE period[1]),
              end_ts |-> end_ts]
        ELSE [raised |-> end_ts <= start[1], start_ts |-> start[1], end_ts |-> end_ts]

\* the functions that take start, end and period and begin with the check
\* of start against period
RangeFetchers ==
    {"build_universal_metrics", "get_hourly_ohlc_with_market_cap",
     "fetch_avg_block_size", "fetch_avg_txfee", "fetch_btc_hashrate",
     "fetch_btc_price_info", "fetch_erc20_daily_transfers",
     "fetch_eth_daily_txn", "fetch_eth_rolling_beta", "fetch_google_trend",
     "fetch_order_book_metrics", "fetch_eth_supply_daily",
     "fetch_eth_supply_growth", "fetch_tweet_volume"}

RangeCalls(fns, maxTime) ==
    {[fn |-> c[1], arg |-> [start |-> c[2], end |-> c[3], period |-> c[4], now |-> c[5]]] :
        c \in fns \X Optional(0..maxTime) \X Optional(0..maxTime)
                  \X Optional(Periods) \X {1, 2}}

\* (mutant) the check of start against period is left out
RangeConflictIgnored(start, period) == FALSE

\* if start is not None and period is not None
RangeConflict(start, period) == start # <<>> /\ period # <<>>

MetricsStep(next) ==
    /\ pc' = next
    /\ UNCHANGED <<config, input0, caller, df, aliased, art, call>>

\* raise ValueError("Use either start/end or period, not both.")
FetcherRaisesConflict ==
    /\ pc = "entry"
    /\ call.fn \in RangeFetchers
    /\ RangeConflict(call.arg.start, call.arg.period)
    /\ MetricsStep("raised")
    /\ UNCHANGED <<trace, ret>>

\* start_ts, end_ts = resolve_time_range(start, end, period)
FetcherResolves ==
    /\ pc = "entry"
    /\ call.fn \in RangeFetchers
    /\ ~RangeConflict(call.arg.start, call.arg.period)
    /\ LET r == resolve_time_range(call.arg.start, call.arg.end,
                                   call.arg.period, call.arg.now)
       IN  IF r.raised
           THEN MetricsStep("raised") /\ UNCHANGED <<trace, ret>>
           ELSE /\ MetricsStep("fetch")
                /\ trace' = Append(trace, "resolve")
                /\ ret' = <<r>>

\* the first request (or file access) of the body
FetcherRequests ==
    /\ pc = "fetch"
    /\ call.fn \in RangeFetchers
    /\ MetricsStep("done")
    /\ trace' = Append(trace, "request")
    /\ UNCHANGED ret

CallResolveTimeRange ==
    /\ pc = "entry"
    /\ call.fn = "resolve_time_range"
    /\ LET r == resolve_time_range(call.arg.start, call.arg.end,
                                   call.arg.period, call.arg.now)
       IN  IF r.raised
           THEN MetricsStep("raised") /\ UNCHANGED ret
           ELSE MetricsStep("done") /\ ret' = <<r>>
    /\ UNCHANGED trace

(***************************************************************************)
(* time_utils.py: iter_candle_ranges, the generator that                   *)
(* fetch_coinbase_candles drives.  Times are seconds.  The frame of the    *)
(* generator is the call: its arguments and the local "current", which     *)
(* starts at start; ret collects the pairs it has yielded.  A step that    *)
(* is not positive never reaches end: the loop is followed for MaxChunks   *)
(* rounds.                                                                 *)
(***************************************************************************)
MaxChunks == 4

CandleCalls(maxTime) ==
    {[fn |-> "iter_candle_ranges",
      arg |-> [start |-> c[1], end |-> c[2], interval_seconds |-> c[3],
               max_candles |-> c[4], current |-> c[1]]] :
        c \in (0..maxTime) \X (0..maxTime) \X ((0 - 1)..2) \X {0 - 1, 1, 2}}

\* (mutant) a chunk that always spans the whole step
CandleChunkEndUnclipped(current, step, end) == current + step

\* chunk_end = min(current + step, end)
CandleChunkEnd(current, step, end) == Min(current + step, end)

GeneratorStep(next, current) ==
    /\ pc' = next
    /\ call' = [call EXCEPT !.arg.current = current]
    /\ UNCHANGED <<config, input0, caller, df, aliased, art, trace>>

\* while current < end: yield current, chunk_end; current = chunk_end
IterCandleYields ==
    /\ pc = "entry"
    /\ call.fn = "iter_candle_ranges"
    /\ call.arg.current < call.arg.end
    /\ Len(ret) < MaxChunks
    /\ LET step == call.arg.interval_seconds * call.arg.max_candles
           chunk_end == CandleChunkEnd(call.arg.current, step, call.arg.end)
       IN  /\ ret' = Append(ret, <<call.arg.current, chunk_end>>)
           /\ GeneratorStep("entry", chunk_end)

\* the loop condition fails: the generator is exhausted
IterCandleReturns ==
    /\ pc = "entry"
    /\ call.fn = "iter_candle_ranges"
    /\ ~(call.arg.current < call.arg.end)
    /\ MetricsStep("done")
    /\ UNCHANGED <<trace, ret>>

(***************************************************************************)
(* google_trend.py: _iter_date_chunks.  Times are half days, so that start *)
(* and end need not be a whole number of days apart.                       *)
(***************************************************************************)
\* pd.Timedelta(days=d)
Days(d) == 2 * d

DateChunkCalls(maxTime) ==
    {[fn |-> "_iter_date_chunks",
      arg |-> [start |-> c[1], end |-> c[2], chunk_days |-> c[3],
               overlap_days |-> c[4], current |-> c[1]]] :
        c \in (0..Days(maxTime)) \X (0..Days(maxTime)) \X (0..3) \X ((0 - 1)..3)}

\* overlap_days = max(0, min(overlap_days, chunk_days - 1))
DateOverlap(overlap_days, chunk_days) ==
    LET least == Min(overlap_days, chunk_days - 1)
    IN  IF least < 0 THEN 0 ELSE least

\* (mutant) a chunk that always spans chunk_days
DateChunkEndUnclipped(current, chunk_days, end) == current + Days(chunk_days)

\* chunk_end = min(current + pd.Timedelta(days=chunk_days), end)
DateChunkEnd(current, chunk_days, end) == Min(current + Days(chunk_days), end)

\* the start of the next chunk: overlap days before the end of this one,
\* or at its end when that would not move forward
DateNextStart(current, chunk_end, overlap) ==
    IF overlap > 0 /\ chunk_end - Days(overlap) > current
    THEN chunk_end - Days(overlap)
    ELSE chunk_end

\* raise ValueError("chunk_days must be positive.")
DateChunksRaises ==
    /\ pc = "entry"
    /\ call.fn = "_iter_date_chunks"
    /\ call.arg.chunk_days <= 0
    /\ MetricsStep("raised")
    /\ UNCHANGED <<trace, ret>>

\* while current < end: yield current, chunk_end; current = next_start
DateChunksYields ==
    /\ pc = "entry"
    /\ call.fn = "_iter_date_chunks"
    /\ call.arg.chunk_days > 0
    /\ call.arg.current < call.arg.end
    /\ LET overlap == DateOverlap(call.arg.overlap_days, call.arg.chunk_days)
           chunk_end == DateChunkEnd(call.arg.current, call.arg.chunk_days,
                                     call.arg.end)
       IN  /\ ret' = Append(ret, <<call.arg.current, chunk_end>>)
           /\ GeneratorStep("entry",
                            DateNextStart(call.arg.current, chunk_end, overlap))

DateChunksReturns ==
    /\ pc = "entry"
    /\ call.fn = "_iter_date_chunks"
    /\ call.arg.chunk_days > 0
    /\ ~(call.arg.current < call.arg.end)
    /\ MetricsStep("done")
    /\ UNCHANGED <<trace, ret>>

(***************************************************************************)
(* google_trend.py: _fetch_trend_chunk.  The call carries                  *)
(* config.google_trend_max_retries, the loop variable attempt, and whether *)
(* the import of pytrends succeeded: when it did not, the module binds     *)
(* TooManyRequestsError to Exception.  A request ends in a table with      *)
(* rows, an empty table (or one without the keyword), a rate-limit error   *)
(* or another exception; trace lists the outcomes of the requests made and *)
(* the sleeps between them.                                                *)
(***************************************************************************)
MaxRetries == 2

RequestOutcomes == {"rows", "empty", "rate_limit", "error"}

TrendChunkCalls(maxRetries) ==
    {[fn |-> "_fetch_trend_chunk",
      arg |-> [google_trend_max_retries |-> c[1], pytrends |-> c[2],
               attempt |-> 0]] :
        c \in ((0 - 1)..maxRetries) \X BOOLEAN}

\* max_retries = max(0, config.google_trend_max_retries)
TrendMaxRetries(arg) ==
    IF arg.google_trend_max_retries < 0 THEN 0 ELSE arg.google_trend_max_retries

\* the exception is one that "except TooManyRequestsError" catches
CaughtAsRateLimit(outcome, pytrends) ==
    \/ outcome = "rate_limit"
    \/ outcome = "error" /\ ~pytrends

TrendStep(next, attempt) ==
    /\ pc' = next
    /\ call' = [call EXCEPT !.arg.attempt = attempt]
    /\ UNCHANGED <<config, input0, caller, df, aliased, art>>

\* one round of the loop up to its return or its sleep: build_payload and
\* interest_over_time, then the return of the table or the handler of the
\* exception
TrendRequests ==
    /\ pc = "entry"
    /\ call.fn = "_fetch_trend_chunk"
    /\ call.arg.attempt <= TrendMaxRetries(call.arg)
    /\ \E outcome \in RequestOutcomes :
          /\ trace' = Append(trace, outcome)
          /\ IF outcome = "rows"
             THEN TrendStep("done", call.arg.attempt) /\ ret' = <<"rows">>
             ELSE IF /\ CaughtAsRateLimit(outcome, call.arg.pytrends)
                     /\ call.arg.attempt < TrendMaxRetries(call.arg)
                  THEN TrendStep("sleep", call.arg.attempt) /\ UNCHANGED ret
                  ELSE TrendStep("done", call.arg.attempt) /\ ret' = <<"empty">>

\* time.sleep(sleep_seconds), and the next attempt of the loop
TrendSleeps ==
    /\ pc = "sleep"
    /\ call.fn = "_fetch_trend_chunk"
    /\ trace' = Append(trace, "sleep")
    /\ TrendStep("entry", call.arg.attempt + 1)
    /\ UNCHANGED ret

MetricsCalls(maxTime) ==
    RangeCalls(RangeFetchers \cup {"resolve_time_range"}, maxTime)
        \cup CandleCalls(maxTime) \cup DateChunkCalls(maxTime)
        \cup TrendChunkCalls(MaxRetries)

InitMetrics ==
    \/ InitRun(EmptyTable, [DefaultConfig EXCEPT !.source = "none"])
    \/ /\ pc = "entry"
       /\ config = DefaultConfig
       /\ input0 = EmptyTable
       /\ caller = EmptyTable
       /\ df = EmptyTable
       /\ aliased = FALSE
       /\ trace = <<>>
       /\ art = NoArtifacts
       /\ call \in MetricsCalls(MaxTime)
       /\ ret = <<>>

NextMetrics ==
    \/ RaiseNoInput
    \/ FetcherRaisesConflict
    \/ FetcherResolves
    \/ FetcherRequests
    \/ CallResolveTimeRange
    \/ IterCandleYields
    \/ IterCandleReturns
    \/ DateChunksRaises
    \/ DateChunksYields
    \/ DateChunksReturns
    \/ TrendRequests
    \/ TrendSleeps

SpecMetrics == InitMetrics /\ [][NextMetrics]_vars

\* a call runs on until it returns or raises: the code is synchronous and
\* nothing it waits for is modelled
SpecMetricsLive == SpecMetrics /\ WF_vars(NextMetrics)

\* C21: a function that takes start, end and period raises when both start
\* and period are given, and analyze_metrics raises when it is given neither
\* a table nor input_csv; the call ends there, with no range computed, no
\* request made, no file read or written and no stage run.
C21_ConfigurationErrorsFailFast ==
    /\ (call.fn \in RangeFetchers /\ call.arg.start # <<>> /\ call.arg.period # <<>>) =>
          /\ pc \in {"entry", "raised"}
          /\ trace = <<>>
          /\ ret = <<>>
    /\ (call = NoCall /\ config.source = "none") =>
          /\ pc \in {"start", "raised"}
          /\ trace = <<>>
          /\ art = NoArtifacts
          /\ df = EmptyTable

C21_Witness ==
    /\ call.fn = "build_universal_metrics"
    /\ call.arg.start # <<>>
    /\ call.arg.period # <<>>
    /\ call.arg.end # <<>>
    /\ call.arg.start[1] < call.arg.end[1]
    /\ pc = "raised"

\* C27: whenever resolve_time_range returns a pair (start_ts, end_ts),
\* start_ts < end_ts, for every combination of start, end and period.
C27_ResolvedRangeNonEmpty ==
    (call.fn = "resolve_time_range" /\ ret # <<>>) => ret[1].start_ts < ret[1].end_ts

\* C22: validate_schema(df, required) returns the names of the given
\* required list that are not columns of df, in the order of that list, for
\* every required list, the empty list included (for which nothing is
\* reported).
C22_ValidateSchemaReportsGivenList ==
    (call.fn = "validate_schema" /\ ret # <<>> /\ call.arg.required # <<>>) =>
        LET required == call.arg.required[1]
            absent(col) == col \notin Range(call.arg.t.cols)
        IN  ret[1] = SelectSeq(required, absent)

\* C23: in the branch of pca_decompose taken when the SVD fails and
\* n_samples <= 1, the arrays returned have the shapes of a decomposition
\* with the one component count c = min(n_samples, n_features): u is
\* n_samples x c, s has length c, vt is c x n_features.
C23_ZerosBranchHasDecompositionShapes ==
    (call.fn = "pca_denoise" /\ ret # <<>>) =>
        LET n == NRows(call.arg.t)
            f == Len(call.arg.t.cols)
            c == Min(n, f)
        IN  \A i \in 1..Len(ret) :
               ret[i].info.branch = "zeros" =>
                  /\ ret[i].info.u = <<n, c>>
                  /\ ret[i].info.s = c
                  /\ ret[i].info.vt = <<c, f>>

\* C24: reconstruct(u, s, vt, k) returns an n_samples x n_features matrix
\* for every k >= 0: the all-zero matrix when k = 0, otherwise the sum over
\* the first k singular triplets only of s[c] * u[:, c] * vt[c, :]; with k
\* the number of components of the SVD of x, it reproduces x.
C24_ReconstructFirstTriplets ==
    (call.fn = "reconstruct" /\ ret # <<>>) =>
        LET u == call.arg.u
            vt == call.arg.vt
            k == call.arg.k
            n == u.shape[1]
            f == vt.shape[2]
            used == {c \in 1..Len(call.arg.s) : c <= k}
            r == ret[1]
        IN  /\ r.shape = <<n, f>>
            /\ reconstruct(u.shape, Len(call.arg.s), vt.shape, k) = r.shape
            /\ DOMAIN r.m = 1..n
            /\ \A i \in 1..n :
                  /\ DOMAIN r.m[i] = 1..f
                  /\ \A j \in 1..f :
                        r.m[i][j] = SumCells([c \in 1..Len(call.arg.s) |->
                                                 Num(call.arg.s[c] * u.m[i][c] * vt.m[c][j])],
                                             used)
            /\ k = 0 => r = ZeroMatrix(n, f)
            /\ (call.arg.x # <<>> /\ k = Len(call.arg.s)) => r = call.arg.x

C24_Witness ==
    /\ call.fn = "reconstruct"
    /\ ret # <<>>
    /\ call.arg.x # <<>>
    /\ Len(call.arg.s) >= 2
    /\ call.arg.k = Len(call.arg.s)
    /\ ret[1] = call.arg.x
    /\ ret[1] # ZeroMatrix(call.arg.u.shape[1], call.arg.vt.shape[2])

\* C25: for every feature matrix and every threshold in (0, 1] the
\* components_used that pca_denoise reports is at least 0 and at most the
\* length of the singular-value sequence, also when every feature is
\* constant and when the matrix has a single row.
C25_ComponentsUsedWithinAvailable ==
    (call.fn = "pca_denoise" /\ ret # <<>> /\ call.arg.threshold \in 1..100) =>
        \A i \in 1..Len(ret) :
           /\ ret[i].info.components_used >= 0
           /\ ret[i].info.components_used <= ret[i].info.s

\* the input rows whose timestamp is missing once ensure_timestamp_datetime
\* has read it
MissingTimestampRows(t) ==
    LET n == ensure_timestamp_datetime(t)
    IN  {i \in 1..NRows(t) : IsNA(n.rows[i].c["timestamp"])}

\* C26: after sort_dedup at most one row has a missing timestamp; it is the
\* last row of the result, after every row with a valid timestamp, and it is
\* the last of the input rows whose timestamp is missing.
C26_MissingTimestampsCollapseToLast ==
    (call.fn = "normalize_sort_dedup" /\ Len(ret) >= 1
        /\ HasCol(call.arg.t, "timestamp")) =>
        LET r == ret[1]
            miss == MissingTimestampRows(call.arg.t)
            left == {a \in 1..NRows(r) : IsNA(r.rows[a].c["timestamp"])}
        IN  /\ Cardinality(left) <= 1
            /\ miss = {} => left = {}
            /\ miss # {} =>
                  /\ left = {NRows(r)}
                  /\ r.rows[NRows(r)].id = CHOOSE i \in miss : \A j \in miss : j <= i

C26_Witness ==
    /\ call.fn = "normalize_sort_dedup"
    /\ Len(ret) >= 1
    /\ HasCol(call.arg.t, "timestamp")
    /\ Cardinality(MissingTimestampRows(call.arg.t)) >= 2
    /\ NRows(ret[1]) >= 2
    /\ IsNA(ret[1].rows[NRows(ret[1])].c["timestamp"])
    /\ ~IsNA(ret[1].rows[1].c["timestamp"])

\* the chunks yielded so far follow one another from start, and none is
\* empty or longer than span
ChunksPartitionFrom(chunks, start, span) ==
    /\ chunks # <<>> => chunks[1][1] = start
    /\ \A i \in 1..Len(chunks) :
          /\ chunks[i][1] < chunks[i][2]
          /\ chunks[i][2] - chunks[i][1] <= span
          /\ i > 1 => chunks[i][1] = chunks[i - 1][2]

CandleRangeGiven ==
    /\ call.fn = "iter_candle_ranges"
    /\ call.arg.start < call.arg.end
    /\ call.arg.interval_seconds * call.arg.max_candles > 0

\* C28: for start < end and a positive interval_seconds * max_candles,
\* iter_candle_ranges terminates, and its chunks partition [start, end): the
\* first starts at start, each starts where the one before ended, the last
\* ends at end, and each is non-empty and at most interval_seconds *
\* max_candles seconds long.
C28_CandleRangesPartitionAndTerminate ==
    /\ [](CandleRangeGiven =>
            /\ ChunksPartitionFrom(ret, call.arg.start,
                                   call.arg.interval_seconds * call.arg.max_candles)
            /\ \A i \in 1..Len(ret) : ret[i][2] <= call.arg.end
            /\ pc = "done" => (ret # <<>> /\ ret[Len(ret)][2] = call.arg.end))
    /\ (CandleRangeGiven ~> (pc = "done"))

C28_Witness ==
    /\ CandleRangeGiven
    /\ pc = "done"
    /\ Len(ret) >= 2
    /\ ret[Len(ret)][2] - ret[Len(ret)][1]
          < call.arg.interval_seconds * call.arg.max_candles

DateRangeGiven ==
    /\ call.fn = "_iter_date_chunks"
    /\ call.arg.start < call.arg.end
    /\ call.arg.chunk_days >= 1
    /\ call.arg.overlap_days >= 0

\* C29: for start < end, chunk_days >= 1 and overlap_days >= 0,
\* _iter_date_chunks terminates; the chunk starts strictly increase, the
\* first chunk starts at start, the last ends at end, no instant of
\* [start, end) is left between two chunks, and a chunk starts at most
\* min(overlap_days, chunk_days - 1) days before the end of the one before.
C29_DateChunksCoverAndTerminate ==
    /\ [](DateRangeGiven =>
            /\ ret # <<>> => ret[1][1] = call.arg.start
            /\ \A i \in 1..Len(ret) :
                  /\ ret[i][1] < ret[i][2]
                  /\ ret[i][2] <= call.arg.end
                  /\ i > 1 =>
                       /\ ret[i - 1][1] < ret[i][1]
                       /\ ret[i][1] <= ret[i - 1][2]
                       /\ ret[i - 1][2] - ret[i][1]
                             <= Days(Min(call.arg.overlap_days,
                                         call.arg.chunk_days - 1))
            /\ pc = "done" => (ret # <<>> /\ ret[Len(ret)][2] = call.arg.end))
    /\ (DateRangeGiven ~> (pc = "done"))

\* a run with an overlap, whose last chunk is cut short at end
C29_Witness ==
    /\ DateRangeGiven
    /\ pc = "done"
    /\ Len(ret) >= 3
    /\ ret[2][1] < ret[1][2]
    /\ ret[Len(ret)][2] - ret[Len(ret)][1] < Days(call.arg.chunk_days)

\* the requests among the events of a trace
RequestsOf(tr) == {i \in 1..Len(tr) : tr[i] \in RequestOutcomes}

====
